---- MODULE Spec2Model ----
(***************************************************************************)
(* Model of the multiplayer game session engine of mtg-builder:            *)
(*   backend/app/models/game.py          (cards, zones, players, rooms)    *)
(*   backend/app/controllers/game.py     (GameActionHandler,               *)
(*                                        GameRoomManager)                 *)
(*   backend/app/controllers/mana_utils.py (mana payment)                  *)
(* Python mutates objects in place; here every handler is an operator      *)
(* that maps the object it is given to the object as the handler leaves    *)
(* it, together with the (success, error) pair it returns.  A handler      *)
(* that draws at random (_shuffle, random.shuffle, random.choices) yields  *)
(* the set of all its possible outcomes.                                   *)
(***************************************************************************)
EXTENDS Integers, Sequences, FiniteSets, TLC

VARIABLES rooms, connections, player_room, last, pay, loops, sent, bcast

vars == <<rooms, connections, player_room, last, pay, loops, sent, bcast>>

(***************************************************************************)
(* Bounds of the model                                                     *)
(***************************************************************************)
\* library cards of the decks players bring (quantity of the non-commander entry)
DeckSize == 2
\* no handled action is explored once a room's history holds this many entries
MaxHistory == 2
\* the same for the specification of the turn order, which needs three turns
\* for a three-player order to wrap
MaxTurnHistory == 3
\* largest mana counter value / cost component explored
MaxMana == 2

\* the history bound of the mana game
MaxManaHistory == 3
\* messages the connection loops take from their websockets, all together
MaxMessages == 3
\* game_action messages taken while the sends of a broadcast are followed
MaxPasses == 2
\* the longest mana cost string parsed
MaxCostLen == 5

(***************************************************************************)
(* Program constants                                                       *)
(***************************************************************************)
\* draw_opening_hand: hand_size = max(0, 7 - mulligan_count)
OpeningHandSize == 7
\* mulligan: if player.mulligan_count >= 6
MaxMulligans == 6
\* _init_player: life=40
StartingLife == 40
\* GameRoom.min_players
MinPlayers == 2
\* GameRoom.to_dict: self.history[-20:]
HistoryWindow == 20

None == "None"

MANA_COLORS == <<"W", "U", "B", "R", "G", "C">>

ManaColorSet == {MANA_COLORS[i] : i \in 1..Len(MANA_COLORS)}

\* class GameZone, in declaration order
GameZone == <<"library", "hand", "battlefield", "graveyard", "exile", "command">>

GameZoneSet == {GameZone[i] : i \in 1..Len(GameZone)}

\* class GamePhase
GamePhase == {"untap", "upkeep", "draw", "main1", "combat_begin",
              "combat_attackers", "combat_blockers", "combat_damage",
              "combat_end", "main2", "end", "cleanup"}

(***************************************************************************)
(* Generic helpers                                                         *)
(***************************************************************************)
Max(a, b) == IF a >= b THEN a ELSE b

Min(a, b) == IF a <= b THEN a ELSE b

Range(s) == {s[i] : i \in 1..Len(s)}

\* list.pop(i), 1-based: the list without its i-th element
RemoveAt(s, i) == [k \in 1..(Len(s) - 1) |-> IF k < i THEN s[k] ELSE s[k + 1]]

\* dict.get(key, default)
Get(d, key, default) == IF key \in DOMAIN d THEN d[key] ELSE default

\* index of the first card of the list with this instance id, 0 when there is none
IndexOf(cards, instance_id) ==
    IF \E i \in 1..Len(cards) : cards[i].instance_id = instance_id
    THEN CHOOSE i \in 1..Len(cards) :
            /\ cards[i].instance_id = instance_id
            /\ \A k \in 1..(i - 1) : cards[k].instance_id # instance_id
    ELSE 0

\* all orders of a list: what a Fisher-Yates shuffle can return
Permutations_(s) ==
    {[i \in 1..Len(s) |-> s[f[i]]] :
        f \in {g \in [1..Len(s) -> 1..Len(s)] :
                 \A a, b \in 1..Len(s) : a # b => g[a] # g[b]}}

_shuffle(cards) == Permutations_(cards)

(***************************************************************************)
(* models/game.py: ManaPool, GameCard, PlayerGameState                     *)
(***************************************************************************)
ManaPool == [c \in ManaColorSet |-> 0]

\* getattr(pool, color, 0) / setattr(pool, color, v): setattr on a name that is
\* no field of the dataclass creates the attribute
GetAttr(pool, color) == IF color \in DOMAIN pool THEN pool[color] ELSE 0

SetAttr(pool, color, v) ==
    [c \in (DOMAIN pool) \cup {color} |-> IF c = color THEN v ELSE pool[c]]

\* ManaPool.to_dict
ManaPool_to_dict(pool) == [c \in ManaColorSet |-> pool[c]]

\* ManaPool.total
ManaPool_total(pool) ==
    pool["W"] + pool["U"] + pool["B"] + pool["R"] + pool["G"] + pool["C"]

EmptyDict == [k \in {} |-> 0]

GameCard(instance_id, zone, is_commander) ==
    [instance_id |-> instance_id, zone |-> zone, is_tapped |-> FALSE,
     counters |-> EmptyDict, is_commander |-> is_commander]

PlayerGameState(id, library, command) ==
    [id |-> id, life |-> StartingLife, poison |-> 0, mana_pool |-> ManaPool,
     library |-> library, hand |-> <<>>, battlefield |-> <<>>,
     graveyard |-> <<>>, exile |-> <<>>, command |-> command,
     mulligan_count |-> 0, has_drawn_opening |-> FALSE, is_ready |-> FALSE]

\* the (success, error) pair of a handler with the player as it leaves it
\* an error message is the tuple of its text and the values formatted into it;
\* NoError is the None a successful handler returns
NoError == <<>>

Ok(player) == [ok |-> TRUE, error |-> NoError, player |-> player]

Fail(player, error) == [ok |-> FALSE, error |-> error, player |-> player]

\* PlayerGameState.remove_card: the first zone, in GameZone order, holding the id
ZoneOfCard(player, instance_id) ==
    IF \E i \in 1..Len(GameZone) : IndexOf(player[GameZone[i]], instance_id) > 0
    THEN GameZone[CHOOSE i \in 1..Len(GameZone) :
            /\ IndexOf(player[GameZone[i]], instance_id) > 0
            /\ \A k \in 1..(i - 1) : IndexOf(player[GameZone[k]], instance_id) = 0]
    ELSE None

remove_card(player, instance_id) ==
    LET z == ZoneOfCard(player, instance_id) IN
    IF z = None
    THEN [found |-> FALSE, player |-> player]
    ELSE LET i == IndexOf(player[z], instance_id) IN
         [found |-> TRUE, card |-> player[z][i],
          player |-> [player EXCEPT ![z] = RemoveAt(@, i)]]

(***************************************************************************)
(* controllers/game.py: GameActionHandler                                  *)
(***************************************************************************)
draw_card(player) ==
    IF player.library = <<>>
    THEN Fail(player, <<"Library is empty">>)
    ELSE LET card == [Head(player.library) EXCEPT !.zone = "hand"] IN
         Ok([player EXCEPT !.library = Tail(@), !.hand = Append(@, card)])

\* the loop of draw_opening_hand and mill: n cards from the library front to a zone
RECURSIVE MoveFromLibrary(_, _, _)
MoveFromLibrary(player, n, zone) ==
    IF n <= 0
    THEN player
    ELSE LET card == [Head(player.library) EXCEPT !.zone = zone] IN
         MoveFromLibrary([player EXCEPT !.library = Tail(@),
                                        ![zone] = Append(@, card)],
                         n - 1, zone)

draw_opening_hand(player) ==
    LET hand_size == Max(0, OpeningHandSize - player.mulligan_count)
        drawn == MoveFromLibrary(player, Min(hand_size, Len(player.library)), "hand")
    IN  Ok([drawn EXCEPT !.has_drawn_opening = TRUE])

\* mulligan with the limit tested by > instead of >=
mulligan_OffByOne(player) ==
    IF player.mulligan_count > MaxMulligans
    THEN {Fail(player, <<"Cannot mulligan further">>)}
    ELSE LET back == [i \in 1..Len(player.hand) |->
                        [player.hand[i] EXCEPT !.zone = "library"]]
         IN  {draw_opening_hand([player EXCEPT !.library = lib,
                                               !.hand = <<>>,
                                               !.mulligan_count = @ + 1])
                : lib \in _shuffle(player.library \o back)}

\* random: one outcome per order _shuffle can give the library
mulligan(player) ==
    IF player.mulligan_count >= MaxMulligans
    THEN {Fail(player, <<"Cannot mulligan further">>)}
    ELSE LET back == [i \in 1..Len(player.hand) |->
                        [player.hand[i] EXCEPT !.zone = "library"]]
         IN  {draw_opening_hand([player EXCEPT !.library = lib,
                                               !.hand = <<>>,
                                               !.mulligan_count = @ + 1])
                : lib \in _shuffle(player.library \o back)}

keep_hand(player) == Ok([player EXCEPT !.is_ready = TRUE])

play_card(player, instance_id) ==
    LET i == IndexOf(player.hand, instance_id) IN
    IF i = 0
    THEN Fail(player, <<"Card not found in hand">>)
    ELSE LET card == [player.hand[i] EXCEPT !.zone = "battlefield",
                                            !.is_tapped = FALSE]
         IN  Ok([player EXCEPT !.hand = RemoveAt(@, i),
                               !.battlefield = Append(@, card)])

\* move_card appending the card to the target zone and leaving it where it was
move_card_Copy(player, instance_id, to_zone) ==
    LET r == remove_card(player, instance_id) IN
    IF ~r.found
    THEN Fail(player, <<"Card not found">>)
    ELSE LET card == [r.card EXCEPT
                        !.zone = to_zone,
                        !.is_tapped = IF to_zone \in {"hand", "library"}
                                      THEN FALSE ELSE @]
         IN  Ok([player EXCEPT ![to_zone] = Append(@, card)])

\* tap_for_mana tapping the card before it looks at the tapped flag
tap_for_mana_TapFirst(player, instance_id, color) ==
    LET i == IndexOf(player.battlefield, instance_id) IN
    IF i = 0
    THEN Fail(player, <<"Card not found on battlefield">>)
    ELSE IF player.battlefield[i].is_tapped
    THEN Fail([player EXCEPT
                 !.mana_pool = SetAttr(@, color, GetAttr(@, color) + 1)],
              <<"Card is already tapped">>)
    ELSE Ok([player EXCEPT
               !.battlefield[i].is_tapped = TRUE,
               !.mana_pool = SetAttr(@, color, GetAttr(@, color) + 1)])

\* move_card leaving the tapped flag as it is
move_card_KeepTapped(player, instance_id, to_zone) ==
    LET r == remove_card(player, instance_id) IN
    IF ~r.found
    THEN Fail(player, <<"Card not found">>)
    ELSE Ok([r.player EXCEPT
               ![to_zone] = Append(@, [r.card EXCEPT !.zone = to_zone])])

move_card(player, instance_id, to_zone) ==
    LET r == remove_card(player, instance_id) IN
    IF ~r.found
    THEN Fail(player, <<"Card not found">>)
    ELSE LET card == [r.card EXCEPT
                        !.zone = to_zone,
                        !.is_tapped = IF to_zone \in {"hand", "library"}
                                      THEN FALSE ELSE @]
         IN  Ok([r.player EXCEPT ![to_zone] = Append(@, card)])

discard_card(player, instance_id) ==
    LET i == IndexOf(player.hand, instance_id) IN
    IF i = 0
    THEN Fail(player, <<"Card not found in hand">>)
    ELSE LET card == [player.hand[i] EXCEPT !.zone = "graveyard"] IN
         Ok([player EXCEPT !.hand = RemoveAt(@, i),
                           !.graveyard = Append(@, card)])

tap_card(player, instance_id) ==
    LET i == IndexOf(player.battlefield, instance_id) IN
    IF i = 0
    THEN Fail(player, <<"Card not found on battlefield">>)
    ELSE Ok([player EXCEPT !.battlefield[i].is_tapped = ~@])

tap_for_mana(player, instance_id, color) ==
    LET i == IndexOf(player.battlefield, instance_id) IN
    IF i = 0
    THEN Fail(player, <<"Card not found on battlefield">>)
    ELSE IF player.battlefield[i].is_tapped
    THEN Fail(player, <<"Card is already tapped">>)
    ELSE Ok([player EXCEPT
               !.battlefield[i].is_tapped = TRUE,
               !.mana_pool = SetAttr(@, color, GetAttr(@, color) + 1)])

untap_all(player) ==
    Ok([player EXCEPT !.battlefield =
          [i \in 1..Len(@) |-> [@[i] EXCEPT !.is_tapped = FALSE]]])

add_mana(player, color, amount) ==
    IF color \notin ManaColorSet
    THEN Fail(player, <<"Invalid mana color: ", color>>)
    ELSE Ok([player EXCEPT
               !.mana_pool = SetAttr(@, color, GetAttr(@, color) + amount)])

remove_mana(player, color, amount) ==
    IF color \notin ManaColorSet
    THEN Fail(player, <<"Invalid mana color: ", color>>)
    ELSE Ok([player EXCEPT
               !.mana_pool = SetAttr(@, color, Max(0, GetAttr(@, color) - amount))])

clear_mana_pool(player) == Ok([player EXCEPT !.mana_pool = ManaPool])

\* random: one outcome per order _shuffle can give the library
shuffle_library(player) ==
    {Ok([player EXCEPT !.library = lib]) : lib \in _shuffle(player.library)}

mill(player, count) ==
    Ok(MoveFromLibrary(player, Min(count, Len(player.library)), "graveyard"))

update_life(player, change) == Ok([player EXCEPT !.life = @ + change])

\* card.counters is a dict: counter type -> count
DictSet(d, key, v) == [k \in (DOMAIN d) \cup {key} |-> IF k = key THEN v ELSE d[k]]

DictPop(d, key) == [k \in (DOMAIN d) \ {key} |-> d[k]]

add_counter(player, instance_id, counter_type) ==
    LET i == IndexOf(player.battlefield, instance_id) IN
    IF i = 0
    THEN Fail(player, <<"Card not found on battlefield">>)
    ELSE Ok([player EXCEPT !.battlefield[i].counters =
                DictSet(@, counter_type, Get(@, counter_type, 0) + 1)])

remove_counter(player, instance_id, counter_type) ==
    LET i == IndexOf(player.battlefield, instance_id) IN
    IF i = 0
    THEN Fail(player, <<"Card not found on battlefield">>)
    ELSE LET count == Get(player.battlefield[i].counters, counter_type, 0) IN
         Ok([player EXCEPT !.battlefield[i].counters =
                IF count <= 1 THEN DictPop(@, counter_type)
                              ELSE DictSet(@, counter_type, count - 1)])


(***************************************************************************)
(* controllers/game.py: deck expansion and player seeding                  *)
(***************************************************************************)
\* The players (user ids of verified identities) and the room codes explored.
Users == {"p1", "p2", "p3"}

Codes == {"AAAAAA", "BBBBBB"}

\* _generate_id: a value never handed out before.  The k-th card seeded for a
\* user is named after the user; a player state is destroyed when its player
\* leaves, so a name is never held by two live cards.
_generate_id(user_id, k) ==
    (CASE user_id = "p1" -> <<"p1-1", "p1-2", "p1-3", "p1-4", "p1-5", "p1-6">>
       [] user_id = "p2" -> <<"p2-1", "p2-2", "p2-3", "p2-4", "p2-5", "p2-6">>
       [] OTHER -> <<"p3-1", "p3-2", "p3-3", "p3-4", "p3-5", "p3-6">>)[k]

\* a deck is a list of entries [isCommander, quantity]
RECURSIVE SumQuantity(_)
SumQuantity(cards) ==
    IF cards = <<>> THEN 0 ELSE Head(cards).quantity + SumQuantity(Tail(cards))

\* _expand_deck_cards, the ids numbered from `first`
RECURSIVE _expand_deck_cards(_, _, _, _)
_expand_deck_cards(user_id, cards, zone, first) ==
    IF cards = <<>>
    THEN <<>>
    ELSE LET card == Head(cards)
             copies == IF card.quantity <= 0
                       THEN <<>>
                       ELSE [k \in 1..card.quantity |->
                               GameCard(_generate_id(user_id, first + k - 1),
                                        zone, card.isCommander)]
         IN  copies \o _expand_deck_cards(user_id, Tail(cards), zone,
                                          first + Max(0, card.quantity))

SelectDeck(cards, commander) ==
    SelectSeq(cards, LAMBDA c : c.isCommander = commander)

\* random: one player state per order _shuffle can give the library
_init_player(user_id, deck_cards) ==
    LET library_cards == SelectDeck(deck_cards, FALSE)
        commander_cards == SelectDeck(deck_cards, TRUE)
        lib == _expand_deck_cards(user_id, library_cards, "library", 1)
        command == _expand_deck_cards(user_id, commander_cards, "command",
                                      Len(lib) + 1)
    IN  {PlayerGameState(user_id, l, command) : l \in _shuffle(lib)}

(***************************************************************************)
(* models/game.py: GameRoom;  controllers/game.py: GameRoomManager         *)
(***************************************************************************)
GameRoom(game_code, host_id, max_players) ==
    [game_code |-> game_code, host_id |-> host_id, format |-> "Commander",
     max_players |-> max_players, min_players |-> MinPlayers,
     players |-> [u \in {} |-> 0], turn_order |-> <<>>,
     active_player_id |-> None, turn_number |-> 0, phase |-> "main1",
     started |-> FALSE, history |-> <<>>]

\* the manager's three dicts as one value
Manager(r, c, pr) == [rooms |-> r, connections |-> c, player_room |-> pr]

\* what a manager operation returns, with the manager as it leaves it
MOk(m) == [ok |-> TRUE, error |-> NoError, raised |-> FALSE, m |-> m]

MFail(m, error) == [ok |-> FALSE, error |-> error, raised |-> FALSE, m |-> m]

\* the operation ends in an exception instead of returning
MRaise(m, exception) ==
    [ok |-> FALSE, error |-> <<exception>>, raised |-> TRUE, m |-> m]

\* _generate_game_code returning the first code drawn, in use or not
_generate_game_code_NoCheck(m, drawn) == drawn

\* _generate_game_code: random codes until one is not a key of rooms; `drawn`
\* is the set of codes random.choices may give
_generate_game_code(m, drawn) == drawn \ DOMAIN m.rooms

create_room(m, drawn, host_id, deck_cards, max_players) ==
    {LET room == [GameRoom(game_code, host_id, max_players) EXCEPT
                    !.players = DictSet(@, host_id, player)]
     IN  MOk(Manager(DictSet(m.rooms, game_code, room),
                     DictSet(m.connections, game_code, EmptyDict),
                     DictSet(m.player_room, host_id, game_code)))
       : game_code \in _generate_game_code(m, drawn),
         player \in _init_player(host_id, deck_cards)}

\* join_room without the capacity check
join_room_NoCapacity(m, game_code, user_id, deck_cards) ==
    IF game_code \notin DOMAIN m.rooms
    THEN {MFail(m, <<"Game not found">>)}
    ELSE LET room == m.rooms[game_code] IN
    IF room.started
    THEN {MFail(m, <<"Game already started">>)}
    ELSE IF user_id \in DOMAIN room.players
    THEN {MFail(m, <<"Already in this game">>)}
    ELSE {MOk([m EXCEPT
                 !.rooms[game_code].players = DictSet(@, user_id, player),
                 !.player_room = DictSet(@, user_id, game_code)])
            : player \in _init_player(user_id, deck_cards)}

\* join_room without the refusal of a started room
join_room_AllowStarted(m, game_code, user_id, deck_cards) ==
    IF game_code \notin DOMAIN m.rooms
    THEN {MFail(m, <<"Game not found">>)}
    ELSE LET room == m.rooms[game_code] IN
    IF Cardinality(DOMAIN room.players) >= room.max_players
    THEN {MFail(m, <<"Game is full">>)}
    ELSE IF user_id \in DOMAIN room.players
    THEN {MFail(m, <<"Already in this game">>)}
    ELSE {MOk([m EXCEPT
                 !.rooms[game_code].players = DictSet(@, user_id, player),
                 !.player_room = DictSet(@, user_id, game_code)])
            : player \in _init_player(user_id, deck_cards)}

join_room(m, game_code, user_id, deck_cards) ==
    IF game_code \notin DOMAIN m.rooms
    THEN {MFail(m, <<"Game not found">>)}
    ELSE LET room == m.rooms[game_code] IN
    IF room.started
    THEN {MFail(m, <<"Game already started">>)}
    ELSE IF Cardinality(DOMAIN room.players) >= room.max_players
    THEN {MFail(m, <<"Game is full">>)}
    ELSE IF user_id \in DOMAIN room.players
    THEN {MFail(m, <<"Already in this game">>)}
    ELSE {MOk([m EXCEPT
                 !.rooms[game_code].players = DictSet(@, user_id, player),
                 !.player_room = DictSet(@, user_id, game_code)])
            : player \in _init_player(user_id, deck_cards)}

\* leave_room without the clean-up of a room left empty
leave_room_KeepEmpty(m, user_id) ==
    IF user_id \notin DOMAIN m.player_room
    THEN m
    ELSE LET game_code == m.player_room[user_id]
             m1 == [m EXCEPT !.player_room = DictPop(@, user_id)]
         IN
         IF game_code \notin DOMAIN m1.rooms
         THEN m1
         ELSE [m1 EXCEPT
                 !.rooms[game_code].players = DictPop(@, user_id),
                 !.connections =
                     IF game_code \in DOMAIN @
                     THEN [@ EXCEPT ![game_code] = DictPop(@, user_id)]
                     ELSE @]

\* leave_room also taking the leaver out of the room's turn order
leave_room_PruneOrder(m, user_id) ==
    IF user_id \notin DOMAIN m.player_room
    THEN m
    ELSE LET game_code == m.player_room[user_id]
             m1 == [m EXCEPT !.player_room = DictPop(@, user_id)]
         IN
         IF game_code \notin DOMAIN m1.rooms
         THEN m1
         ELSE LET m2 == [m1 EXCEPT
                           !.rooms[game_code].players = DictPop(@, user_id),
                           !.rooms[game_code].turn_order =
                               SelectSeq(@, LAMBDA e : e # user_id),
                           !.connections =
                               IF game_code \in DOMAIN @
                               THEN [@ EXCEPT ![game_code] = DictPop(@, user_id)]
                               ELSE @]
              IN  IF DOMAIN m2.rooms[game_code].players = {}
                  THEN [m2 EXCEPT !.rooms = DictPop(@, game_code),
                                  !.connections = DictPop(@, game_code)]
                  ELSE m2

leave_room(m, user_id) ==
    IF user_id \notin DOMAIN m.player_room
    THEN m
    ELSE LET game_code == m.player_room[user_id]
             m1 == [m EXCEPT !.player_room = DictPop(@, user_id)]
         IN
         IF game_code \notin DOMAIN m1.rooms
         THEN m1
         ELSE LET m2 == [m1 EXCEPT
                           !.rooms[game_code].players = DictPop(@, user_id),
                           !.connections =
                               IF game_code \in DOMAIN @
                               THEN [@ EXCEPT ![game_code] = DictPop(@, user_id)]
                               ELSE @]
              IN  IF DOMAIN m2.rooms[game_code].players = {}
                  THEN [m2 EXCEPT !.rooms = DictPop(@, game_code),
                                  !.connections = DictPop(@, game_code)]
                  ELSE m2

\* all(p.is_ready for p in room.players.values())
AllReady(room) == \A u \in DOMAIN room.players : room.players[u].is_ready

\* the orders of a set: list(room.players.keys()) after random.shuffle
Orders(S) ==
    {o \in [1..Cardinality(S) -> S] :
        \A a, b \in 1..Cardinality(S) : a # b => o[a] # o[b]}

\* start_game without the test of min_players
start_game_NoMinPlayers(m, game_code) ==
    IF game_code \notin DOMAIN m.rooms
    THEN {MFail(m, <<"Game not found">>)}
    ELSE LET room == m.rooms[game_code] IN
    IF room.started
    THEN {MFail(m, <<"Game already started">>)}
    ELSE IF ~AllReady(room)
    THEN {MFail(m, <<"Not all players are ready">>)}
    ELSE {MOk([m EXCEPT !.rooms[game_code] =
                 [@ EXCEPT !.turn_order = player_ids,
                           !.active_player_id = player_ids[1],
                           !.turn_number = 1,
                           !.phase = "main1",
                           !.started = TRUE]])
            : player_ids \in Orders(DOMAIN room.players)}

\* random: one outcome per turn order random.shuffle can give
start_game(m, game_code) ==
    IF game_code \notin DOMAIN m.rooms
    THEN {MFail(m, <<"Game not found">>)}
    ELSE LET room == m.rooms[game_code] IN
    IF room.started
    THEN {MFail(m, <<"Game already started">>)}
    ELSE IF Cardinality(DOMAIN room.players) < room.min_players
    THEN {MFail(m, <<"Need at least ", ToString(room.min_players), " players">>)}
    ELSE IF ~AllReady(room)
    THEN {MFail(m, <<"Not all players are ready">>)}
    ELSE {MOk([m EXCEPT !.rooms[game_code] =
                 [@ EXCEPT !.turn_order = player_ids,
                           !.active_player_id = player_ids[1],
                           !.turn_number = 1,
                           !.phase = "main1",
                           !.started = TRUE]])
            : player_ids \in Orders(DOMAIN room.players)}


_set_phase(room, phase_str) ==
    IF phase_str \in GamePhase
    THEN [ok |-> TRUE, error |-> NoError, room |-> [room EXCEPT !.phase = phase_str]]
    ELSE [ok |-> FALSE, error |-> <<"Invalid phase: ", phase_str>>, room |-> room]

\* list.index: position of the first occurrence
ListIndex(list, x) ==
    CHOOSE i \in 1..Len(list) :
        /\ list[i] = x
        /\ \A k \in 1..(i - 1) : list[k] # x

\* _next_turn advancing from the seat of the player who submitted the action
_next_turn_FromSubmitter(room, user_id) ==
    IF room.turn_order = <<>>
    THEN [ok |-> FALSE, error |-> <<"No turn order set">>, room |-> room]
    ELSE LET active == room.active_player_id
             players1 ==
                 IF active \in DOMAIN room.players
                 THEN [room.players EXCEPT
                         ![active] = clear_mana_pool(untap_all(@).player).player]
                 ELSE room.players
             current_idx == IF user_id \in Range(room.turn_order)
                            THEN ListIndex(room.turn_order, user_id) - 1
                            ELSE -1
             next_idx == (current_idx + 1) % Len(room.turn_order)
         IN  [ok |-> TRUE, error |-> NoError,
              room |-> [room EXCEPT !.players = players1,
                                    !.active_player_id = room.turn_order[next_idx + 1],
                                    !.turn_number = @ + 1,
                                    !.phase = "untap"]]

\* _next_turn untapping and clearing the player who submitted the action
_next_turn_UntapSubmitter(room, user_id) ==
    IF room.turn_order = <<>>
    THEN [ok |-> FALSE, error |-> <<"No turn order set">>, room |-> room]
    ELSE LET active == room.active_player_id
             players1 ==
                 IF user_id \in DOMAIN room.players
                 THEN [room.players EXCEPT
                         ![user_id] = clear_mana_pool(untap_all(@).player).player]
                 ELSE room.players
             current_idx == IF active \in Range(room.turn_order)
                            THEN ListIndex(room.turn_order, active) - 1
                            ELSE -1
             next_idx == (current_idx + 1) % Len(room.turn_order)
         IN  [ok |-> TRUE, error |-> NoError,
              room |-> [room EXCEPT !.players = players1,
                                    !.active_player_id = room.turn_order[next_idx + 1],
                                    !.turn_number = @ + 1,
                                    !.phase = "untap"]]

_next_turn(room, user_id) ==
    IF room.turn_order = <<>>
    THEN [ok |-> FALSE, error |-> <<"No turn order set">>, room |-> room]
    ELSE LET active == room.active_player_id
             \* untap the active player's permanents and clear their mana
             players1 ==
                 IF active \in DOMAIN room.players
                 THEN [room.players EXCEPT
                         ![active] = clear_mana_pool(untap_all(@).player).player]
                 ELSE room.players
             \* 0-based, as in the code
             current_idx == IF active \in Range(room.turn_order)
                            THEN ListIndex(room.turn_order, active) - 1
                            ELSE -1
             next_idx == (current_idx + 1) % Len(room.turn_order)
         IN  [ok |-> TRUE, error |-> NoError,
              room |-> [room EXCEPT !.players = players1,
                                    !.active_player_id = room.turn_order[next_idx + 1],
                                    !.turn_number = @ + 1,
                                    !.phase = "untap"]]

\* the entry handle_action appends to room.history (id and timestamp, fresh
\* values no operation reads, are left out)
GameAction(user_id, action_type, action) ==
    [player_id |-> user_id, action_type |-> action_type,
     card_instance_id |-> Get(action, "instance_id", None),
     from_zone |-> None,
     to_zone |-> Get(action, "to_zone", None),
     details |-> Get(action, "details", None)]

\* the handler_map entry of an in-game action type applied to the player:
\* the set of the handler's outcomes, {} when the type has no entry
PlayerHandler(player, action_type, action) ==
    CASE action_type = "draw_card" -> {draw_card(player)}
      [] action_type = "play_card" ->
            {play_card(player, Get(action, "instance_id", ""))}
      [] action_type = "move_card" ->
            {move_card(player, Get(action, "instance_id", ""),
                       Get(action, "to_zone", "battlefield"))}
      [] action_type = "discard_card" ->
            {discard_card(player, Get(action, "instance_id", ""))}
      [] action_type = "tap_card" ->
            {tap_card(player, Get(action, "instance_id", ""))}
      [] action_type = "tap_for_mana" ->
            {tap_for_mana(player, Get(action, "instance_id", ""),
                          Get(action, "color", "C"))}
      [] action_type = "untap_all" -> {untap_all(player)}
      [] action_type = "add_mana" ->
            {add_mana(player, Get(action, "color", "C"), Get(action, "amount", 1))}
      [] action_type = "remove_mana" ->
            {remove_mana(player, Get(action, "color", "C"), Get(action, "amount", 1))}
      [] action_type = "clear_mana_pool" -> {clear_mana_pool(player)}
      [] action_type = "shuffle_library" -> shuffle_library(player)
      [] action_type = "mill" -> {mill(player, Get(action, "count", 1))}
      [] action_type = "update_life" ->
            {update_life(player, Get(action, "change", 0))}
      [] action_type = "add_counter" ->
            {add_counter(player, Get(action, "instance_id", ""),
                         Get(action, "counter_type", "+1/+1"))}
      [] action_type = "remove_counter" ->
            {remove_counter(player, Get(action, "instance_id", ""),
                            Get(action, "counter_type", "+1/+1"))}
      [] OTHER -> {}

PlayerActionTypes ==
    {"draw_card", "play_card", "move_card", "discard_card", "tap_card",
     "tap_for_mana", "untap_all", "add_mana", "remove_mana", "clear_mana_pool",
     "shuffle_library", "mill", "update_life", "add_counter", "remove_counter"}

\* a room-level result put back into the manager
InRoom(m, game_code, r) ==
    [ok |-> r.ok, error |-> r.error, raised |-> FALSE,
     m |-> [m EXCEPT !.rooms[game_code] = r.room]]

\* the result stored under the active player's id instead of the submitter's
InPlayer_ActivePlayer(room, user_id, r) ==
    [ok |-> r.ok, error |-> r.error,
     room |-> [room EXCEPT
                 !.players[IF room.active_player_id \in DOMAIN room.players
                           THEN room.active_player_id ELSE user_id] = r.player]]

\* a player-level result put back into the room
InPlayer(room, user_id, r) ==
    [ok |-> r.ok, error |-> r.error,
     room |-> [room EXCEPT !.players[user_id] = r.player]]

\* the pre-game branch with keep_hand not looking whether the game can start
PreGameAction_NoAutoStart(m, game_code, user_id, action_type) ==
    LET room == m.rooms[game_code]
        player == room.players[user_id]
    IN
    IF action_type = "mulligan"
    THEN {InRoom(m, game_code, InPlayer(room, user_id, r)) : r \in mulligan(player)}
    ELSE IF action_type = "keep_hand"
    THEN {InRoom(m, game_code, InPlayer(room, user_id, keep_hand(player)))}
    ELSE IF action_type = "draw_opening_hand"
    THEN IF ~player.has_drawn_opening
         THEN {InRoom(m, game_code, InPlayer(room, user_id, draw_opening_hand(player)))}
         ELSE {MFail(m, <<"Opening hand already drawn">>)}
    ELSE {MFail(m, <<"Game has not started yet">>)}

\* the pre-game branch drawing an opening hand whenever it is asked to
PreGameAction_NoDrawnGuard(m, game_code, user_id, action_type) ==
    LET room == m.rooms[game_code]
        player == room.players[user_id]
    IN
    IF action_type = "mulligan"
    THEN {InRoom(m, game_code, InPlayer(room, user_id, r)) : r \in mulligan(player)}
    ELSE IF action_type = "keep_hand"
    THEN LET kept == InRoom(m, game_code, InPlayer(room, user_id, keep_hand(player)))
             room1 == kept.m.rooms[game_code]
         IN  IF kept.ok /\ AllReady(room1)
                /\ Cardinality(DOMAIN room1.players) >= room1.min_players
             THEN {[kept EXCEPT !.m = s.m] : s \in start_game(kept.m, game_code)}
             ELSE {kept}
    ELSE IF action_type = "draw_opening_hand"
    THEN {InRoom(m, game_code, InPlayer(room, user_id, draw_opening_hand(player)))}
    ELSE {MFail(m, <<"Game has not started yet">>)}

\* handle_action, room not started
PreGameAction(m, game_code, user_id, action_type) ==
    LET room == m.rooms[game_code]
        player == room.players[user_id]
    IN
    IF action_type = "mulligan"
    THEN {InRoom(m, game_code, InPlayer(room, user_id, r)) : r \in mulligan(player)}
    ELSE IF action_type = "keep_hand"
    THEN LET kept == InRoom(m, game_code, InPlayer(room, user_id, keep_hand(player)))
             room1 == kept.m.rooms[game_code]
         IN  IF kept.ok /\ AllReady(room1)
                /\ Cardinality(DOMAIN room1.players) >= room1.min_players
             THEN \* the result of start_game is dropped, its effect is kept
                  {[kept EXCEPT !.m = s.m] : s \in start_game(kept.m, game_code)}
             ELSE {kept}
    ELSE IF action_type = "draw_opening_hand"
    THEN IF ~player.has_drawn_opening
         THEN {InRoom(m, game_code, InPlayer(room, user_id, draw_opening_hand(player)))}
         ELSE {MFail(m, <<"Opening hand already drawn">>)}
    ELSE {MFail(m, <<"Game has not started yet">>)}

\* handle_action, room started: dispatch through handler_map, then the history
InGameAction(m, game_code, user_id, action_type, action) ==
    LET room == m.rooms[game_code]
        player == room.players[user_id]
        results ==
            IF action_type \in PlayerActionTypes
            THEN {InPlayer(room, user_id, r)
                    : r \in PlayerHandler(player, action_type, action)}
            ELSE IF action_type = "set_phase"
            THEN {_set_phase(room, Get(action, "phase", "main1"))}
            ELSE {_next_turn(room, user_id)}
        Record(r) ==
            IF r.ok
            THEN [r EXCEPT !.room.history =
                    Append(@, GameAction(user_id, action_type, action))]
            ELSE r
    IN
    IF action_type \notin PlayerActionTypes \cup {"set_phase", "next_turn"}
    THEN {MFail(m, <<"Unknown action: ", action_type>>)}
    ELSE IF action_type = "move_card"
            /\ Get(action, "to_zone", "battlefield") \notin GameZoneSet
    THEN \* GameZone(...) raises before move_card is entered
         {MRaise(m, "ValueError")}
    ELSE {InRoom(m, game_code, Record(r)) : r \in results}

PreGameTypes == {"mulligan", "keep_hand", "draw_opening_hand"}

\* handle_action with the pre-game branch falling through to the handler map
handle_action_FallThrough(m, game_code, user_id, action) ==
    IF game_code \notin DOMAIN m.rooms
    THEN {MFail(m, <<"Game not found">>)}
    ELSE IF user_id \notin DOMAIN m.rooms[game_code].players
    THEN {MFail(m, <<"Player not in game">>)}
    ELSE LET action_type == Get(action, "action", "") IN
         IF ~m.rooms[game_code].started /\ action_type \in PreGameTypes
         THEN PreGameAction(m, game_code, user_id, action_type)
         ELSE InGameAction(m, game_code, user_id, action_type, action)

\* handle_action taking the pre-game types whether or not the room started
handle_action_PreGameAnytime(m, game_code, user_id, action) ==
    IF game_code \notin DOMAIN m.rooms
    THEN {MFail(m, <<"Game not found">>)}
    ELSE IF user_id \notin DOMAIN m.rooms[game_code].players
    THEN {MFail(m, <<"Player not in game">>)}
    ELSE LET action_type == Get(action, "action", "") IN
         IF ~m.rooms[game_code].started \/ action_type \in PreGameTypes
         THEN PreGameAction(m, game_code, user_id, action_type)
         ELSE InGameAction(m, game_code, user_id, action_type, action)

handle_action(m, game_code, user_id, action) ==
    IF game_code \notin DOMAIN m.rooms
    THEN {MFail(m, <<"Game not found">>)}
    ELSE IF user_id \notin DOMAIN m.rooms[game_code].players
    THEN {MFail(m, <<"Player not in game">>)}
    ELSE LET action_type == Get(action, "action", "") IN
         IF ~m.rooms[game_code].started
         THEN PreGameAction(m, game_code, user_id, action_type)
         ELSE InGameAction(m, game_code, user_id, action_type, action)


(***************************************************************************)
(* models/game.py: the per-viewer projection (to_dict)                     *)
(***************************************************************************)
\* GameCard.to_dict; the printed fields (name, cost, text, ...) are fixed by
\* the instance id and are left out
GameCard_to_dict(card) ==
    [instanceId |-> card.instance_id, zone |-> card.zone,
     isTapped |-> card.is_tapped, counters |-> card.counters,
     isCommander |-> card.is_commander]

\* GameCard.to_hidden_dict
GameCard_to_hidden_dict(card) ==
    [instanceId |-> card.instance_id, faceDown |-> TRUE, zone |-> card.zone]

CardDicts(cards) == [i \in 1..Len(cards) |-> GameCard_to_dict(cards[i])]

PublicPart(player) ==
    [id |-> player.id, life |-> player.life, poison |-> player.poison,
     manaPool |-> ManaPool_to_dict(player.mana_pool),
     battlefield |-> CardDicts(player.battlefield),
     graveyard |-> CardDicts(player.graveyard),
     exile |-> CardDicts(player.exile),
     command |-> CardDicts(player.command)]

\* dict.update: the entries of e added to d
DictUpdate(d, e) ==
    [k \in (DOMAIN d) \cup (DOMAIN e) |-> IF k \in DOMAIN e THEN e[k] ELSE d[k]]

\* to_dict showing an opponent the hand as hidden cards instead of an empty list
PlayerGameState_to_dict_HiddenCards(player, is_owner) ==
    IF is_owner
    THEN DictUpdate(PublicPart(player),
                    [library |-> CardDicts(player.library),
                     hand |-> CardDicts(player.hand)])
    ELSE DictUpdate(PublicPart(player),
                    [library_count |-> Len(player.library),
                     hand_count |-> Len(player.hand),
                     hand |-> [i \in 1..Len(player.hand) |->
                                 GameCard_to_hidden_dict(player.hand[i])],
                     library |-> <<>>])

\* PlayerGameState.to_dict
PlayerGameState_to_dict(player, is_owner) ==
    IF is_owner
    THEN DictUpdate(PublicPart(player),
                    [library |-> CardDicts(player.library),
                     hand |-> CardDicts(player.hand)])
    ELSE DictUpdate(PublicPart(player),
                    [library_count |-> Len(player.library),
                     hand_count |-> Len(player.hand),
                     hand |-> <<>>,
                     library |-> <<>>])

\* GameAction.to_dict, of an entry of room.history
GameAction_to_dict(a) ==
    [playerId |-> a.player_id, type |-> a.action_type,
     cardInstanceId |-> a.card_instance_id, fromZone |-> a.from_zone,
     toZone |-> a.to_zone, details |-> a.details]

\* list[-n:]
LastN(list, n) ==
    IF Len(list) <= n THEN list ELSE SubSeq(list, Len(list) - n + 1, Len(list))

\* GameRoom.to_dict; the players are given by id (the code lists them in the
\* order they were seated)
GameRoom_to_dict(room, viewer_id) ==
    [game_code |-> room.game_code, format |-> room.format,
     players |-> [pid \in DOMAIN room.players |->
                    PlayerGameState_to_dict(
                        room.players[pid],
                        IF viewer_id # None THEN pid = viewer_id ELSE FALSE)],
     active_player_id |-> room.active_player_id,
     turn_number |-> room.turn_number, phase |-> room.phase,
     turn_order |-> room.turn_order, started |-> room.started,
     history |-> LET shown == LastN(room.history, HistoryWindow)
                 IN  [i \in 1..Len(shown) |-> GameAction_to_dict(shown[i])]]

(***************************************************************************)
(* controllers/mana_utils.py                                               *)
(***************************************************************************)
ParsedManaCost(generic, colored) ==
    [generic |-> generic, W |-> colored["W"], U |-> colored["U"],
     B |-> colored["B"], R |-> colored["R"], G |-> colored["G"],
     C |-> colored["C"],
     total |-> generic + colored["W"] + colored["U"] + colored["B"]
               + colored["R"] + colored["G"] + colored["C"]]

\* a payability check that looks at the colored requirements only
can_pay_mana_cost_ColoredOnly(pool, cost) ==
    ~ \E c \in ManaColorSet : pool[c] < cost[c]

can_pay_mana_cost(pool, cost) ==
    IF \E c \in ManaColorSet : pool[c] < cost[c]
    THEN FALSE
    ELSE LET remaining == (pool["W"] - cost["W"]) + (pool["U"] - cost["U"])
                          + (pool["B"] - cost["B"]) + (pool["R"] - cost["R"])
                          + (pool["G"] - cost["G"]) + (pool["C"] - cost["C"])
         IN  remaining >= cost.generic

\* the loop over MANA_COLORS applying the caller's allocation, from the i-th
\* color on; st is [pool, generic_remaining]
RECURSIVE ApplyAllocation(_, _, _)
ApplyAllocation(st, generic_allocation, i) ==
    IF i > Len(MANA_COLORS)
    THEN st
    ELSE LET color == MANA_COLORS[i]
             amount == Get(generic_allocation, color, 0)
             current == st.pool[color]
             actual == Min(amount, current)
         IN  ApplyAllocation(
                IF amount > 0
                THEN [pool |-> [st.pool EXCEPT ![color] = current - actual],
                      generic_remaining |-> st.generic_remaining - actual]
                ELSE st,
                generic_allocation, i + 1)

\* the auto-pay order starting with the colors, colorless last
pay_order_ColorlessLast == <<"W", "U", "B", "R", "G", "C">>

\* pay_order = ["C", "W", "U", "B", "R", "G"]
pay_order == <<"C", "W", "U", "B", "R", "G">>

\* the auto-pay loops: one unit at a time from the i-th color of pay_order on
RECURSIVE AutoPay(_, _)
AutoPay(st, i) ==
    IF i > Len(pay_order)
    THEN st
    ELSE LET color == pay_order[i] IN
         IF st.generic_remaining > 0 /\ st.pool[color] > 0
         THEN AutoPay([pool |-> [st.pool EXCEPT ![color] = @ - 1],
                       generic_remaining |-> st.generic_remaining - 1], i)
         ELSE AutoPay(st, i + 1)

\* the explicit allocation of no caller: generic_allocation=None
NoAllocation == EmptyDict

\* pay_mana_cost; `pool` in the result is the caller's pool object as the
\* call leaves it (the function works on pool.copy())
pay_mana_cost(pool, cost, generic_allocation) ==
    IF ~can_pay_mana_cost(pool, cost)
    THEN [ok |-> FALSE, new_pool |-> pool, error |-> <<"Not enough mana">>,
          pool |-> pool]
    ELSE LET new_pool == [c \in DOMAIN pool |->
                            IF c \in ManaColorSet THEN pool[c] - cost[c]
                                                  ELSE pool[c]]
             st0 == [pool |-> new_pool, generic_remaining |-> cost.generic]
             \* `if generic_allocation:` is false for None and for {}
             st1 == IF generic_allocation # EmptyDict
                    THEN ApplyAllocation(st0, generic_allocation, 1)
                    ELSE st0
             st2 == IF st1.generic_remaining > 0 THEN AutoPay(st1, 1) ELSE st1
         IN  IF st2.generic_remaining > 0
             THEN [ok |-> FALSE, new_pool |-> pool,
                   error |-> <<"Not enough mana for generic cost">>, pool |-> pool]
             ELSE [ok |-> TRUE, new_pool |-> st2.pool, error |-> NoError,
                   pool |-> pool]

(***************************************************************************)
(* controllers/mana_utils.py: parse_mana_cost.  A string is a sequence of  *)
(* characters.                                                             *)
(***************************************************************************)
\* the first position from i on that holds "}", or Len + 1
RECURSIVE NextClose(_, _)
NextClose(str, i) ==
    IF i > Len(str) \/ str[i] = "}" THEN i ELSE NextClose(str, i + 1)

\* re.findall(r"\{([^}]+)\}", str) from position i on: a match starts at a
\* "{", takes every character up to the next "}" and needs at least one
RECURSIVE findall(_, _)
findall(str, i) ==
    IF i > Len(str)
    THEN <<>>
    ELSE IF str[i] # "{"
    THEN findall(str, i + 1)
    ELSE LET close == NextClose(str, i + 1) IN
         IF close > Len(str) \/ close = i + 1
         THEN findall(str, i + 1)
         ELSE <<SubSeq(str, i + 1, close - 1)>> \o findall(str, close + 1)

\* the characters str.isdigit() accepts, and those of them int() accepts
DigitChars == {"0", "1", "2", "²"}

DecimalChars == {"0", "1", "2"}

\* content.isdigit(), content not empty
isdigit(content) == \A k \in 1..Len(content) : content[k] \in DigitChars

RECURSIVE int(_)
int(content) ==
    IF content = <<>>
    THEN 0
    ELSE 10 * int(SubSeq(content, 1, Len(content) - 1))
         + (CASE content[Len(content)] = "1" -> 1
              [] content[Len(content)] = "2" -> 2
              [] OTHER -> 0)

\* the body of the loop over symbols for one content; result.raised is set
\* when int() raises ValueError
ParseSymbol(result, content) ==
    IF Len(content) = 1 /\ content[1] \in ManaColorSet
    THEN [result EXCEPT ![content[1]] = @ + 1, !.total = @ + 1]
    ELSE IF isdigit(content)
    THEN IF \E k \in 1..Len(content) : content[k] \notin DecimalChars
         THEN [result EXCEPT !.raised = TRUE]
         ELSE [result EXCEPT !.generic = @ + int(content),
                             !.total = @ + int(content)]
    ELSE IF content = <<"X">>
    THEN result
    ELSE IF \E k \in 1..Len(content) : content[k] = "/"
    THEN [result EXCEPT !.total = @ + 1]
    ELSE result

RECURSIVE ParseSymbols(_, _)
ParseSymbols(result, symbols) ==
    IF symbols = <<>> \/ result.raised
    THEN result
    ELSE ParseSymbols(ParseSymbol(result, Head(symbols)), Tail(symbols))

\* ParsedManaCost()
ZeroCost ==
    [generic |-> 0, W |-> 0, U |-> 0, B |-> 0, R |-> 0, G |-> 0, C |-> 0,
     total |-> 0, raised |-> FALSE]

\* mana_cost is None (is_none) or the string chars
parse_mana_cost(mana_cost) ==
    IF mana_cost.is_none \/ mana_cost.chars = <<>>
    THEN ZeroCost
    ELSE ParseSymbols(ZeroCost, findall(mana_cost.chars, 1))

(***************************************************************************)
(* controllers/game.py: connections and broadcasts.  A connection is named *)
(* by its websocket; `failing` is the set of websockets whose send_json    *)
(* raises during the pass.  A pass gives the manager as it leaves it and   *)
(* the messages delivered.                                                 *)
(***************************************************************************)
register_connection(m, game_code, user_id, ws) ==
    [m EXCEPT !.connections =
        DictSet(@, game_code, DictSet(Get(@, game_code, EmptyDict), user_id, ws))]

unregister_connection(m, user_id) ==
    LET game_code == Get(m.player_room, user_id, None) IN
    IF game_code # None /\ game_code \in DOMAIN m.connections
    THEN [m EXCEPT !.connections[game_code] = DictPop(@, user_id)]
    ELSE m

\* for uid in disconnected: conns.pop(uid, None)
PopAll(m, game_code, disconnected) ==
    IF game_code \in DOMAIN m.connections
    THEN [m EXCEPT !.connections[game_code] =
            [u \in (DOMAIN @) \ disconnected |-> @[u]]]
    ELSE m

\* broadcast_state giving up the pass at the first send that fails
broadcast_state_AbortOnFailure(m, game_code, failing) ==
    IF game_code \notin DOMAIN m.rooms
    THEN [m |-> m, sent |-> {}]
    ELSE LET room == m.rooms[game_code]
             conns == Get(m.connections, game_code, EmptyDict)
             disconnected == {u \in DOMAIN conns : conns[u] \in failing}
         IN  IF disconnected # {}
             THEN [m |-> PopAll(m, game_code, disconnected), sent |-> {}]
             ELSE [m |-> m,
                   sent |-> {[to |-> conns[u],
                              msg |-> [type |-> "game_state_update",
                                       game_state |-> GameRoom_to_dict(room, u)]]
                               : u \in DOMAIN conns}]

\* the loop over conns.items(): each send is tried in turn, a failure only
\* notes the user; conns itself is not changed while the loop runs.  `todo`
\* are the users still to come, msgs the message for each user
RECURSIVE SendLoop(_, _, _, _, _)
SendLoop(conns, msgs, todo, failing, acc) ==
    IF todo = {}
    THEN acc
    ELSE LET user_id == CHOOSE u \in todo : TRUE IN
         SendLoop(conns, msgs, todo \ {user_id}, failing,
                  IF conns[user_id] \in failing
                  THEN [acc EXCEPT !.disconnected = @ \cup {user_id}]
                  ELSE [acc EXCEPT !.sent =
                          @ \cup {[to |-> conns[user_id], msg |-> msgs[user_id]]}])

broadcast_state(m, game_code, failing) ==
    IF game_code \notin DOMAIN m.rooms
    THEN [m |-> m, sent |-> {}]
    ELSE LET room == m.rooms[game_code]
             conns == Get(m.connections, game_code, EmptyDict)
             msgs == [u \in DOMAIN conns |->
                        [type |-> "game_state_update",
                         game_state |-> GameRoom_to_dict(room, u)]]
             pass == SendLoop(conns, msgs, DOMAIN conns, failing,
                              [sent |-> {}, disconnected |-> {}])
         IN  [m |-> PopAll(m, game_code, pass.disconnected), sent |-> pass.sent]

broadcast_message(m, game_code, message, exclude, failing) ==
    LET conns == Get(m.connections, game_code, EmptyDict)
        msgs == [u \in DOMAIN conns |-> message]
        pass == SendLoop(conns, msgs, (DOMAIN conns) \ {exclude}, failing,
                         [sent |-> {}, disconnected |-> {}])
    IN  [m |-> PopAll(m, game_code, pass.disconnected), sent |-> pass.sent]

\* room.lobby_dict()["players"], by player id
lobby_players(room) ==
    [u \in DOMAIN room.players |->
        [id |-> u, ready |-> room.players[u].is_ready]]

(***************************************************************************)
(* The state machine.  The manager's operations are the actions; `last`    *)
(* holds what the latest operation was and what it returned.               *)
(***************************************************************************)
Mgr == Manager(rooms, connections, player_room)

Returned(op, action_type, r) ==
    [op |-> op, type |-> action_type, ok |-> r.ok, error |-> r.error,
     raised |-> r.raised]

NoPay == [phase |-> "unused"]

\* the websockets and the user each one's token names: p1 has two open
Sockets == {"w1", "w2", "w3"}

SocketUser(ws) == IF ws = "w2" THEN "p2" ELSE "p1"

\* a connection loop after accept(): current_game_code = None, waiting in
\* receive_text; `received` counts the messages the loop has taken from it
NewLoop ==
    [pc |-> "receive", current_game_code |-> None, msg |-> EmptyDict,
     received |-> 0]

\* no broadcast_state coroutine has been started
NoPass ==
    [pc |-> "idle", game_code |-> None, order |-> <<>>, pos |-> 0,
     ws |-> None, state |-> None, disconnected |-> {}, passes |-> 0]

Init ==
    /\ rooms = EmptyDict
    /\ connections = EmptyDict
    /\ player_room = EmptyDict
    /\ last = Returned("none", "", MOk(Mgr))
    /\ pay = NoPay
    /\ loops = [ws \in Sockets |-> NewLoop]
    /\ sent = {}
    /\ bcast = NoPass

Apply(op, action_type, r) ==
    /\ rooms' = r.m.rooms
    /\ connections' = r.m.connections
    /\ player_room' = r.m.player_room
    /\ last' = Returned(op, action_type, r)
    /\ UNCHANGED <<pay, loops, sent, bcast>>

CreateRoom(drawn, host_id, deck_cards, max_players) ==
    \E r \in create_room(Mgr, drawn, host_id, deck_cards, max_players) :
        Apply("create_room", "", r)

JoinRoom(game_code, user_id, deck_cards) ==
    \E r \in join_room(Mgr, game_code, user_id, deck_cards) :
        Apply("join_room", "", r)

LeaveRoom(user_id) ==
    Apply("leave_room", "", MOk(leave_room(Mgr, user_id)))

StartGame(game_code) ==
    \E r \in start_game(Mgr, game_code) : Apply("start_game", "", r)

\* the history of the room the action goes to is below the bound
HistoryBelow(game_code, n) ==
    game_code \in DOMAIN rooms => Len(rooms[game_code].history) < n

HandleAction(game_code, user_id, action) ==
    \E r \in handle_action(Mgr, game_code, user_id, action) :
        Apply("handle_action", Get(action, "action", ""), r)

(***************************************************************************)
(* Spec: the lobby.  Two players create, join and leave rooms, take        *)
(* mulligans, draw and keep opening hands, until a game starts.            *)
(***************************************************************************)
Deck(n) == <<[isCommander |-> TRUE, quantity |-> 1],
             [isCommander |-> FALSE, quantity |-> n]>>

LobbyUsers == {"p1", "p2"}

\* the deck each player brings: p1's has DeckSize library cards, p2's one
LobbyDeck(user_id) == IF user_id = "p1" THEN Deck(DeckSize) ELSE Deck(1)

LobbyCodes == {"AAAAAA"}

\* play_card without instance_id is refused in a started room as well
LobbyActions ==
    {[action |-> "mulligan"], [action |-> "keep_hand"],
     [action |-> "draw_opening_hand"], [action |-> "play_card"],
     [action |-> "concede"]}

Next ==
    \/ \E u \in LobbyUsers, mp \in {1, 2} :
          CreateRoom(LobbyCodes, u, LobbyDeck(u), mp)
    \/ \E c \in Codes, u \in LobbyUsers : JoinRoom(c, u, LobbyDeck(u))
    \/ \E u \in LobbyUsers : LeaveRoom(u)
    \/ \E c \in Codes : StartGame(c)
    \/ \E c \in Codes, u \in LobbyUsers, a \in LobbyActions :
          HandleAction(c, u, a)

Spec == Init /\ [][Next]_vars

(***************************************************************************)
(* The inputs the properties quantify over: one action of every type the   *)
(* handler map knows, with and without its fields, the pre-game types,     *)
(* a type nobody handles and an action without a type.                     *)
(***************************************************************************)
InGameTypes == PlayerActionTypes \cup {"set_phase", "next_turn"}

\* the instance ids a client may name: two cards of the player, and a name
\* none of the player's cards has
ProbeIds(user_id) == {_generate_id(user_id, 1), _generate_id(user_id, 3), "p3-6"}

ProbeActions(user_id) ==
    {[action |-> t] : t \in InGameTypes \cup PreGameTypes \cup {"concede"}}
    \cup {EmptyDict}
    \cup {[action |-> t, instance_id |-> i] :
            t \in {"play_card", "discard_card", "tap_card", "add_counter",
                   "remove_counter"},
            i \in ProbeIds(user_id)}
    \cup {[action |-> "move_card", instance_id |-> i, to_zone |-> z] :
            i \in ProbeIds(user_id), z \in GameZoneSet}
    \cup {[action |-> "tap_for_mana", instance_id |-> i, color |-> "W"] :
            i \in ProbeIds(user_id)}
    \cup {[action |-> t, color |-> c, amount |-> n] :
            t \in {"add_mana", "remove_mana"}, c \in {"W", "X"}, n \in {-1, 2}}
    \cup {[action |-> "mill", count |-> n] : n \in {-1, 2}}
    \cup {[action |-> "update_life", change |-> n] : n \in {-1, 3}}
    \cup {[action |-> "set_phase", phase |-> ph] : ph \in {"end", "lunch"}}

Seated(game_code) == DOMAIN rooms[game_code].players

LobbyRooms == {c \in DOMAIN rooms : ~rooms[c].started}

StartedRooms == {c \in DOMAIN rooms : rooms[c].started}

(***************************************************************************)
(* C6  Pre-game gating: while a room is not started, every action whose    *)
(* type is not mulligan, keep_hand or draw_opening_hand is rejected with   *)
(* "Game has not started yet" and the manager's state stays as it was.     *)
(***************************************************************************)
C6_PreGameGating ==
    \A c \in LobbyRooms : \A u \in Seated(c) : \A a \in ProbeActions(u) :
        Get(a, "action", "") \notin PreGameTypes =>
            handle_action(Mgr, c, u, a) =
                {MFail(Mgr, <<"Game has not started yet">>)}

\* an in-game action was just refused in a lobby whose player holds cards in hand
C6_Witness ==
    /\ last.op = "handle_action" /\ last.type = "play_card"
    /\ ~last.ok /\ last.error = <<"Game has not started yet">>
    /\ \E c \in LobbyRooms : \E u \in Seated(c) :
          Len(rooms[c].players[u].hand) > 0

(***************************************************************************)
(* C7  Mulligan bound: no player's mulligan count exceeds 6; a mulligan    *)
(* attempted at count 6 fails and changes nothing; a mulligan attempted    *)
(* below 6 succeeds, raises the count by one to n and leaves a hand of     *)
(* min(max(0, 7 - n), cards held in hand and library before) cards.        *)
(***************************************************************************)
C7_MulliganBound ==
    \A c \in LobbyRooms : \A u \in Seated(c) :
        LET p == rooms[c].players[u] IN
        /\ p.mulligan_count <= 6
        /\ \A r \in handle_action(Mgr, c, u, [action |-> "mulligan"]) :
              IF p.mulligan_count >= 6
              THEN ~r.ok /\ r.m = Mgr
              ELSE LET q == r.m.rooms[c].players[u]
                       n == p.mulligan_count + 1
                   IN  /\ r.ok
                       /\ q.mulligan_count = n
                       /\ Len(q.hand) =
                             Min(Max(0, 7 - n), Len(p.hand) + Len(p.library))

\* a seventh mulligan was just refused; the sixth left a hand of one card,
\* the earlier ones hands bounded by the deck
C7_Witness ==
    /\ last.op = "handle_action" /\ last.type = "mulligan"
    /\ ~last.ok /\ last.error = <<"Cannot mulligan further">>
    /\ \E c \in LobbyRooms : \E u \in Seated(c) :
          /\ rooms[c].players[u].mulligan_count = 6
          /\ Len(rooms[c].players[u].hand) = 1
          /\ Len(rooms[c].players[u].library) >= 1

(***************************************************************************)
(* C9  keep_hand in a lobby room always succeeds and marks the player      *)
(* ready; when every seated player is then ready and at least min_players  *)
(* are seated the room is started by the same action (turn order a         *)
(* permutation of the seated players, its first entry active, turn 1),     *)
(* otherwise the room stays a lobby and nothing else changes.              *)
(***************************************************************************)
C9_KeepHand ==
    \A c \in LobbyRooms : \A u \in Seated(c) :
        LET room == rooms[c]
            marked == [room EXCEPT !.players[u].is_ready = TRUE]
            can_start ==
                /\ \A v \in Seated(c) \ {u} : room.players[v].is_ready
                /\ Cardinality(Seated(c)) >= room.min_players
        IN  \A r \in handle_action(Mgr, c, u, [action |-> "keep_hand"]) :
              LET room1 == r.m.rooms[c] IN
              /\ r.ok
              /\ room1.players[u].is_ready
              /\ IF can_start
                 THEN /\ room1.started
                      /\ Len(room1.turn_order) = Cardinality(Seated(c))
                      /\ Range(room1.turn_order) = Seated(c)
                      /\ room1.active_player_id = room1.turn_order[1]
                      /\ room1.turn_number = 1
                 ELSE /\ ~room1.started
                      /\ r.m = [Mgr EXCEPT !.rooms[c] = marked]

\* the second player's keep_hand has just started the game
C9_Witness ==
    /\ last.op = "handle_action" /\ last.type = "keep_hand" /\ last.ok
    /\ \E c \in StartedRooms :
          /\ rooms[c].turn_number = 1
          /\ Cardinality(Seated(c)) = 2
          /\ rooms[c].active_player_id = rooms[c].turn_order[1]


(***************************************************************************)
(* SpecTurn: three players, each with a commander-only deck, gather in a   *)
(* room, keep their hands, leave, start the game and pass the turn.        *)
(***************************************************************************)
TurnCodes == {"BBBBBB"}

TurnDeck == <<[isCommander |-> TRUE, quantity |-> 1]>>

\* GameRoomManager.create_room: max_players: int = 4
DefaultMaxPlayers == 4

TurnActions == {[action |-> "keep_hand"], [action |-> "next_turn"]}

NextTurn ==
    \/ \E u \in Users : CreateRoom(TurnCodes, u, TurnDeck, DefaultMaxPlayers)
    \/ \E c \in TurnCodes, u \in Users : JoinRoom(c, u, TurnDeck)
    \/ \E u \in Users : LeaveRoom(u)
    \/ \E c \in Codes : StartGame(c)
    \/ \E c \in TurnCodes, u \in Users, a \in TurnActions :
          HistoryBelow(c, MaxTurnHistory) /\ HandleAction(c, u, a)

SpecTurn == Init /\ [][NextTurn]_vars

(***************************************************************************)
(* C8  start_game succeeds exactly when the room exists, is not started,   *)
(* seats at least min_players and every seated player is ready; then       *)
(* turn_order is a permutation of the seated ids, its first entry is the   *)
(* active player, the turn is 1, the phase main1 and started is true;      *)
(* otherwise it fails with a reason and the manager is unchanged.          *)
(***************************************************************************)
C8_StartGame ==
    \A c \in Codes :
        LET can_start ==
                /\ c \in DOMAIN rooms
                /\ ~rooms[c].started
                /\ Cardinality(Seated(c)) >= rooms[c].min_players
                /\ \A u \in Seated(c) : rooms[c].players[u].is_ready
        IN  \A r \in start_game(Mgr, c) :
              IF can_start
              THEN LET room1 == r.m.rooms[c] IN
                   /\ r.ok
                   /\ Len(room1.turn_order) = Cardinality(Seated(c))
                   /\ Range(room1.turn_order) = Seated(c)
                   /\ room1.active_player_id = room1.turn_order[1]
                   /\ room1.turn_number = 1
                   /\ room1.phase = "main1"
                   /\ room1.started
              ELSE ~r.ok /\ r.error # NoError /\ r.m = Mgr

\* start_game itself has just started a room of two ready players
C8_Witness ==
    /\ last.op = "start_game" /\ last.ok
    /\ \E c \in StartedRooms :
          /\ rooms[c].turn_number = 1
          /\ Cardinality(Seated(c)) = 2
          /\ \A u \in Seated(c) : rooms[c].players[u].is_ready

(***************************************************************************)
(* C10  Turn rotation: in a started room a successful next_turn, from      *)
(* whichever seated player, makes the entry of turn_order that cyclically  *)
(* follows the active player the active player, adds exactly 1 to the      *)
(* turn number and sets the phase to untap; k such calls from active       *)
(* index i end at index (i + k) mod len(turn_order).                       *)
(***************************************************************************)
\* the managers k next_turn calls on room c can lead to, any seated player calling
RECURSIVE AfterNextTurns(_, _, _)
AfterNextTurns(ms, c, k) ==
    IF k = 0
    THEN ms
    ELSE AfterNextTurns(
            {r.m : r \in UNION {handle_action(m, c, u, [action |-> "next_turn"])
                                  : m \in ms, u \in Seated(c)}},
            c, k - 1)

C10_TurnRotation ==
    \A c \in StartedRooms :
        LET room == rooms[c]
            n == Len(room.turn_order)
            i == ListIndex(room.turn_order, room.active_player_id)
        IN  /\ \A u \in Seated(c) :
                 \A r \in handle_action(Mgr, c, u, [action |-> "next_turn"]) :
                    r.ok =>
                        /\ r.m.rooms[c].active_player_id =
                              room.turn_order[(i % n) + 1]
                        /\ r.m.rooms[c].turn_number = room.turn_number + 1
                        /\ r.m.rooms[c].phase = "untap"
            /\ \A k \in 1..(n + 1) : \A m \in AfterNextTurns({Mgr}, c, k) :
                 /\ m.rooms[c].active_player_id =
                       room.turn_order[((i - 1 + k) % n) + 1]
                 /\ m.rooms[c].turn_number = room.turn_number + k

\* the third next_turn of a three-player game, submitted by a player who was
\* not the active one, has wrapped the turn to the first seat
C10_Witness ==
    /\ last.op = "handle_action" /\ last.type = "next_turn" /\ last.ok
    /\ \E c \in StartedRooms :
          LET room == rooms[c] IN
          /\ Len(room.turn_order) = 3
          /\ room.turn_number = 4
          /\ room.active_player_id = room.turn_order[1]
          /\ room.history[Len(room.history)].player_id # room.turn_order[3]


(***************************************************************************)
(* SpecGame: two players start a game and move cards between zones.  p1    *)
(* brings two library cards and a commander and may take mulligans; p2     *)
(* brings a commander only.                                                *)
(***************************************************************************)
GameCodes == {"AAAAAA"}

GameUsers == {"p1", "p2"}

GameDeck(user_id) ==
    IF user_id = "p1"
    THEN <<[isCommander |-> FALSE, quantity |-> 2],
           [isCommander |-> TRUE, quantity |-> 1]>>
    ELSE <<[isCommander |-> TRUE, quantity |-> 1]>>

GameActions(user_id) ==
    IF user_id = "p1"
    THEN {[action |-> "mulligan"], [action |-> "keep_hand"],
          [action |-> "draw_opening_hand"], [action |-> "draw_card"],
          [action |-> "play_card", instance_id |-> "p1-1"],
          [action |-> "discard_card", instance_id |-> "p1-2"],
          [action |-> "move_card", instance_id |-> "p1-1", to_zone |-> "library"],
          [action |-> "move_card", instance_id |-> "p1-3", to_zone |-> "graveyard"],
          [action |-> "mill", count |-> 1],
          [action |-> "shuffle_library"],
          [action |-> "tap_for_mana", instance_id |-> "p1-1", color |-> "G"]}
    ELSE {[action |-> "keep_hand"], [action |-> "draw_card"],
          [action |-> "move_card", instance_id |-> "p2-1", to_zone |-> "hand"]}

NextGame ==
    \/ \E mp \in {2} : CreateRoom(GameCodes, "p1", GameDeck("p1"), mp)
    \/ \E c \in GameCodes : JoinRoom(c, "p2", GameDeck("p2"))
    \/ \E c \in GameCodes, u \in GameUsers : \E a \in GameActions(u) :
          HistoryBelow(c, MaxHistory) /\ HandleAction(c, u, a)

SpecGame == Init /\ [][NextGame]_vars


(***************************************************************************)
(* C1  Zone exclusivity: every card instance seeded for a player is in     *)
(* exactly one of that player's six zone lists, in every reachable state   *)
(* and after any further zone-changing action a client can submit.         *)
(***************************************************************************)
\* how many entries of the player's six zone lists hold the instance id
Occurrences(player, instance_id) ==
    LET InZone(z) ==
            Cardinality({i \in 1..Len(player[z]) :
                            player[z][i].instance_id = instance_id})
    IN  InZone("library") + InZone("hand") + InZone("battlefield")
        + InZone("graveyard") + InZone("exile") + InZone("command")

ZoneExclusive(m) ==
    \A c \in DOMAIN m.rooms : \A u \in DOMAIN m.rooms[c].players :
        \A k \in 1..SumQuantity(GameDeck(u)) :
            Occurrences(m.rooms[c].players[u], _generate_id(u, k)) = 1

ZoneChangingTypes ==
    {"draw_opening_hand", "mulligan", "draw_card", "play_card", "move_card",
     "discard_card", "mill", "shuffle_library"}

ZoneProbes(user_id) ==
    {a \in ProbeActions(user_id) : Get(a, "action", "") \in ZoneChangingTypes}

C1_ZoneExclusivity ==
    /\ ZoneExclusive(Mgr)
    /\ \A c \in DOMAIN rooms : \A u \in Seated(c) :
          \A a \in ZoneProbes(u) :
              \A r \in handle_action(Mgr, c, u, a) : ZoneExclusive(r.m)

\* p1 has played one card and has just moved the commander to the graveyard
C1_Witness ==
    /\ last.op = "handle_action" /\ last.type = "move_card" /\ last.ok
    /\ \E c \in StartedRooms :
          /\ "p1" \in Seated(c)
          /\ IndexOf(rooms[c].players["p1"].battlefield, "p1-1") > 0
          /\ IndexOf(rooms[c].players["p1"].graveyard, "p1-3") > 0
          /\ rooms[c].players["p1"].command = <<>>

(***************************************************************************)
(* C2  A handle_action call that returns failure leaves the manager - the  *)
(* rooms with every player's zones, cards, life, mana, mulligan count and  *)
(* flags, the phase, turn, active player, turn order, started flag and     *)
(* history, and the connection and player indexes - as it was.             *)
(***************************************************************************)
C2_FailureChangesNothing ==
    \A c \in GameCodes \cup {"BBBBBB"} : \A u \in GameUsers :
        \A a \in ProbeActions(u) :
            \A r \in handle_action(Mgr, c, u, a) :
                (~r.ok /\ ~r.raised) => r.m = Mgr

\* playing a card a second time has just been refused, in a game whose
\* player took all six mulligans and has that card on the battlefield
C2_Witness ==
    /\ last.op = "handle_action" /\ last.type = "play_card"
    /\ ~last.ok /\ last.error = <<"Card not found in hand">>
    /\ \E c \in StartedRooms :
          /\ "p1" \in Seated(c)
          /\ rooms[c].players["p1"].mulligan_count = 6
          /\ IndexOf(rooms[c].players["p1"].battlefield, "p1-1") > 0
          /\ Len(rooms[c].history) = 1

(***************************************************************************)
(* SpecPay: pay_mana_cost as a function.  Init draws a pool, a cost and an *)
(* optional generic allocation; the one action applies pay_mana_cost.      *)
(***************************************************************************)
\* the colors the drawn pools, costs and allocations use; the others are 0
PayColors == {"W", "G", "C"}

PayPools ==
    {[c \in ManaColorSet |-> IF c \in PayColors THEN f[c] ELSE 0] :
        f \in [PayColors -> 0..MaxMana]}

PayCosts ==
    {ParsedManaCost(generic,
                    [c \in ManaColorSet |-> IF c \in PayColors THEN f[c] ELSE 0]) :
        generic \in 0..MaxMana, f \in [PayColors -> 0..1]}

\* None, and the dicts giving an amount to some of W and G
PayAllocations ==
    {NoAllocation}
    \cup UNION {[keys -> 1..MaxMana] : keys \in (SUBSET {"W", "G"}) \ {{}}}

InitPay ==
    /\ rooms = EmptyDict
    /\ connections = EmptyDict
    /\ player_room = EmptyDict
    /\ last = Returned("none", "", MOk(Mgr))
    /\ loops = [ws \in Sockets |-> NewLoop]
    /\ sent = {}
    /\ bcast = NoPass
    /\ \E pool \in PayPools, cost \in PayCosts,
          generic_allocation \in PayAllocations :
          pay = [phase |-> "input", pool |-> pool, cost |-> cost,
                 generic_allocation |-> generic_allocation]

PayManaCost ==
    /\ pay.phase = "input"
    /\ LET r == pay_mana_cost(pay.pool, pay.cost, pay.generic_allocation) IN
       pay' = [phase |-> "done", input |-> pay.pool, cost |-> pay.cost,
               generic_allocation |-> pay.generic_allocation,
               pool |-> r.pool, ok |-> r.ok, new_pool |-> r.new_pool,
               error |-> r.error]
    /\ UNCHANGED <<rooms, connections, player_room, last, loops, sent, bcast>>

NextPay == PayManaCost

SpecPay == InitPay /\ [][NextPay]_vars

\* the colored requirements of a cost, summed
ColoredTotal(cost) ==
    cost["W"] + cost["U"] + cost["B"] + cost["R"] + cost["G"] + cost["C"]

(***************************************************************************)
(* C3  Mana payment atomicity: pay_mana_cost either succeeds and returns a *)
(* pool with each colored requirement deducted from its own color and the  *)
(* generic total fully deducted - the pool's total decreases by exactly    *)
(* the colored requirements plus the generic requirement - or fails and    *)
(* returns a pool equal to the input pool; the input pool is not modified. *)
(***************************************************************************)
C3_PayAtomicity ==
    pay.phase = "done" =>
        /\ pay.pool = pay.input
        /\ IF pay.ok
           THEN /\ \A c \in ManaColorSet :
                      /\ pay.new_pool[c] >= 0
                      /\ pay.new_pool[c] <= pay.input[c] - pay.cost[c]
                /\ ManaPool_total(pay.new_pool)
                      = ManaPool_total(pay.input)
                        - (ColoredTotal(pay.cost) + pay.cost.generic)
           ELSE pay.new_pool = pay.input

(***************************************************************************)
(* SpecMana: a two-player game in which the players add, remove and clear  *)
(* mana, tap the commander for mana and pass the turn.                     *)
(***************************************************************************)
ManaCodes == {"AAAAAA"}

ManaUsers == {"p1", "p2"}

\* each player's only card is the commander
ManaDeck == <<[isCommander |-> TRUE, quantity |-> 1]>>

ManaActions(user_id) ==
    IF user_id = "p1"
    THEN {[action |-> "keep_hand"],
          [action |-> "add_mana", color |-> "W", amount |-> 2],
          [action |-> "add_mana", color |-> "W", amount |-> -1],
          [action |-> "remove_mana", color |-> "W", amount |-> 1],
          [action |-> "move_card", instance_id |-> "p1-1"],
          [action |-> "tap_for_mana", instance_id |-> "p1-1", color |-> "G"],
          [action |-> "clear_mana_pool"],
          [action |-> "next_turn"]}
    ELSE {[action |-> "keep_hand"], [action |-> "add_mana"],
          [action |-> "next_turn"]}

NextMana ==
    \/ \E mp \in {2} : CreateRoom(ManaCodes, "p1", ManaDeck, mp)
    \/ \E c \in ManaCodes : JoinRoom(c, "p2", ManaDeck)
    \/ \E c \in ManaCodes, u \in ManaUsers : \E a \in ManaActions(u) :
          HistoryBelow(c, MaxManaHistory) /\ HandleAction(c, u, a)

SpecMana == Init /\ [][NextMana]_vars

(***************************************************************************)
(* C4  In every reachable state each of the six counters of every          *)
(* player's mana pool is a non-negative integer, whatever integer amounts  *)
(* the add_mana and remove_mana actions carry.                             *)
(***************************************************************************)
C4_ManaNonNegative ==
    \A c \in DOMAIN rooms : \A u \in DOMAIN rooms[c].players :
        \A color \in ManaColorSet :
            rooms[c].players[u].mana_pool[color] \in Nat

(***************************************************************************)
(* C11  The side effects of next_turn fall on the outgoing active player:  *)
(* after a successful next_turn every battlefield card of the previously   *)
(* active player is untapped and that player's mana pool is all zeros,     *)
(* while every other player - the submitter included, when the submitter   *)
(* is not the active player - keeps tapped flags and mana pool.            *)
(***************************************************************************)
C11_NextTurnEffects ==
    \A c \in StartedRooms : \A u \in Seated(c) :
        \A r \in handle_action(Mgr, c, u, [action |-> "next_turn"]) :
            r.ok =>
                \A v \in Seated(c) :
                    LET before == rooms[c].players[v]
                        after == r.m.rooms[c].players[v]
                    IN  IF v = rooms[c].active_player_id
                        THEN /\ \A i \in 1..Len(after.battlefield) :
                                    ~after.battlefield[i].is_tapped
                             /\ after.mana_pool = ManaPool
                             /\ Len(after.battlefield) = Len(before.battlefield)
                        ELSE after = before

\* p1, who was not the active player, has passed the turn with the commander
\* tapped for mana: the card is still tapped and the mana still in the pool
C11_Witness ==
    /\ last.op = "handle_action" /\ last.type = "next_turn" /\ last.ok
    /\ \E c \in StartedRooms :
          LET room == rooms[c] IN
          /\ Seated(c) = ManaUsers
          /\ room.history[Len(room.history)].player_id = "p1"
          /\ room.active_player_id = "p1"
          /\ room.turn_number = 2
          /\ Len(room.players["p1"].battlefield) = 1
          /\ room.players["p1"].battlefield[1].is_tapped
          /\ room.players["p1"].mana_pool["G"] = 1

(***************************************************************************)
(* C12  The turn order start_game sets contains exactly the player ids     *)
(* seated at start time, no later operation (action, next_turn, join,      *)
(* leave) changes it, and while the room is started the active player id   *)
(* is a member of the turn order.                                          *)
(***************************************************************************)
\* the list holds each member of S once and nothing else
IsOrderOf(list, S) ==
    /\ Range(list) = S
    /\ Len(list) = Cardinality(S)

TurnOrderStep ==
    \A c \in (DOMAIN rooms) \cap (DOMAIN rooms') :
        IF rooms[c].started
        THEN /\ rooms'[c].started
             /\ rooms'[c].turn_order = rooms[c].turn_order
        ELSE rooms'[c].started =>
                IsOrderOf(rooms'[c].turn_order, DOMAIN rooms'[c].players)

ActiveInTurnOrder ==
    \A c \in StartedRooms :
        rooms[c].active_player_id \in Range(rooms[c].turn_order)

C12_TurnOrderFixed == [](ActiveInTurnOrder) /\ [][TurnOrderStep]_vars

\* a player has just left a started three-player game after a turn was passed
C12_Witness ==
    /\ last.op = "leave_room"
    /\ \E c \in StartedRooms :
          /\ Len(rooms[c].turn_order) = 3
          /\ Cardinality(Seated(c)) = 2
          /\ rooms[c].turn_number = 2

(***************************************************************************)
(* C13  After a player leaves a started room the remaining players         *)
(* continue with a smaller turn order: in every reachable state of a       *)
(* started room that still has players, also after every later next_turn,  *)
(* the active player is a player currently seated in the room.             *)
(***************************************************************************)
C13_ActiveSeated ==
    \A c \in StartedRooms :
        Seated(c) # {} => rooms[c].active_player_id \in Seated(c)

(***************************************************************************)
(* C5  Redaction as non-interference: the projection built for a viewer is *)
(* the same for any two rooms that differ only in the contents or order of *)
(* the other players' hands and libraries (sizes kept); in it every other  *)
(* player's hand and library are empty lists with hand_count and           *)
(* library_count the real sizes, the viewer's own hand and library are     *)
(* listed in full, and every player's battlefield, graveyard, exile and    *)
(* command are listed in full.                                             *)
(***************************************************************************)
\* a card no player of the room was seeded with
ForeignCard == [GameCard("zz-9", "hand", FALSE) EXCEPT !.is_tapped = TRUE]

\* the lists of the same length as `cards` over the player's hidden cards
\* and the foreign card: every other content and order the list could have
HiddenVariants(player, cards) ==
    [1..Len(cards) -> Range(player.hand) \cup Range(player.library)
                      \cup {ForeignCard}]

\* the rooms that differ from `room` only in the hand and library of other_id
RoomVariants(room, other_id) ==
    LET player == room.players[other_id] IN
    {[room EXCEPT !.players[other_id].hand = h,
                  !.players[other_id].library = l] :
        h \in HiddenVariants(player, player.hand),
        l \in HiddenVariants(player, player.library)}

Viewers == GameUsers \cup {None}

C5_Redaction ==
    \A c \in DOMAIN rooms : \A viewer_id \in Viewers :
        LET room == rooms[c]
            view == GameRoom_to_dict(room, viewer_id)
        IN  /\ \A pid \in DOMAIN room.players :
                  LET player == room.players[pid]
                      shown == view.players[pid]
                  IN  /\ \A z \in {"battlefield", "graveyard", "exile", "command"} :
                            shown[z] = CardDicts(player[z])
                      /\ IF pid = viewer_id
                         THEN /\ shown.hand = CardDicts(player.hand)
                              /\ shown.library = CardDicts(player.library)
                         ELSE /\ shown.hand = <<>> /\ shown.library = <<>>
                              /\ shown.hand_count = Len(player.hand)
                              /\ shown.library_count = Len(player.library)
            /\ \A other_id \in (DOMAIN room.players) \ {viewer_id} :
                  \A variant \in RoomVariants(room, other_id) :
                      GameRoom_to_dict(variant, viewer_id) = view

\* a started game in which both players hold a hidden card: p1 one in hand
\* and one in the library, p2 the commander moved to the hand
C5_Witness ==
    /\ last.op = "handle_action" /\ last.type = "move_card" /\ last.ok
    /\ \E c \in StartedRooms :
          /\ Seated(c) = GameUsers
          /\ Len(rooms[c].players["p1"].hand) = 1
          /\ Len(rooms[c].players["p1"].library) = 1
          /\ IndexOf(rooms[c].players["p2"].hand, "p2-1") > 0
          /\ Len(rooms[c].history) = 2

(***************************************************************************)
(* routers/game.py: game_websocket.  Every connection runs the message     *)
(* loop as a coroutine of one event loop: the code between two awaits is   *)
(* one step, and the steps of different connections interleave.  A loop's  *)
(* pc names the await it is suspended in.  A broadcast's sends are taken   *)
(* together with the code that follows the pass.                           *)
(***************************************************************************)
\* receive_text returns a message to the loop: the messages taken by all the
\* loops together stay within the bound
Receive(ws) ==
    /\ loops[ws].pc = "receive"
    /\ loops["w1"].received + loops["w2"].received + loops["w3"].received
          < MaxMessages

\* the loop with the message counted
Took(ws) == [loops[ws] EXCEPT !.received = @ + 1]

\* the websockets whose loop has ended: a send to them raises
ClosedSockets == {ws \in Sockets : loops[ws].pc \in {"closing", "closed"}}

\* the sets of websockets whose send can raise during a pass over the room's
\* connections: the closed ones, and any of the others
FailingSets(m, game_code) ==
    LET conns == Get(m.connections, game_code, EmptyDict)
        registered == {conns[u] : u \in DOMAIN conns}
    IN  {F \in SUBSET registered : (ClosedSockets \cap registered) \subseteq F}

\* msg.get("game_code", "").upper()
Upper(game_code) ==
    CASE game_code = "aaaaaa" -> "AAAAAA"
      [] game_code = "bbbbbb" -> "BBBBBB"
      [] OTHER -> game_code

\* the player_left / player_joined notice about the room as it is now
Notice(m, type, game_code, user_id) ==
    [type |-> type, player_id |-> user_id,
     players |-> IF game_code \in DOMAIN m.rooms
                 THEN lobby_players(m.rooms[game_code]) ELSE <<>>]

RouterStep(ws, op, action_type, ok, error, m, loop, out) ==
    /\ rooms' = m.rooms
    /\ connections' = m.connections
    /\ player_room' = m.player_room
    /\ loops' = [loops EXCEPT ![ws] = loop]
    /\ sent' = out
    /\ last' = [op |-> op, type |-> action_type, ok |-> ok, error |-> error,
                raised |-> FALSE]
    /\ UNCHANGED <<pay, bcast>>

\* create_room, register_connection and the game_created reply
CreateNow(ws, m, out, drawn, deck_cards) ==
    LET user_id == SocketUser(ws) IN
    \E r \in create_room(m, drawn, user_id, deck_cards, loops[ws].msg.max_players) :
        LET game_code == r.m.player_room[user_id]
            m1 == register_connection(r.m, game_code, user_id, ws)
        IN  RouterStep(ws, "create_game", "", TRUE, NoError, m1,
                       [loops[ws] EXCEPT !.pc = "receive",
                                         !.current_game_code = game_code,
                                         !.msg = EmptyDict],
                       out \cup {[to |-> ws,
                                  msg |-> [type |-> "game_created",
                                           game_code |-> game_code,
                                           game_state |->
                                               GameRoom_to_dict(m1.rooms[game_code],
                                                                user_id)]]})

\* receive_text returns a create_game message; the loop awaits the deck
CreateGameReceive(ws, max_players) ==
    /\ Receive(ws)
    /\ RouterStep(ws, "receive", "create_game", TRUE, NoError, Mgr,
                  [Took(ws) EXCEPT !.pc = "create_game",
                                    !.msg = [max_players |-> max_players]],
                  {})

\* the deck is loaded: leave the current room and start the player_left
\* broadcast, or create the room at once
CreateGameLoaded(ws, drawn, deck_cards) ==
    /\ loops[ws].pc = "create_game"
    /\ LET current_game_code == loops[ws].current_game_code
           user_id == SocketUser(ws)
       IN  IF current_game_code # None
           THEN LET m1 == leave_room(Mgr, user_id) IN
                RouterStep(ws, "leave_room", "create_game", TRUE, NoError, m1,
                           [loops[ws] EXCEPT
                              !.pc = "create_game_left",
                              !.msg = DictSet(@, "notice",
                                              Notice(m1, "player_left",
                                                     current_game_code, user_id))],
                           {})
           ELSE CreateNow(ws, Mgr, {}, drawn, deck_cards)

\* the player_left broadcast is over: create the room
CreateGameCreate(ws, drawn, deck_cards) ==
    /\ loops[ws].pc = "create_game_left"
    /\ \E failing \in FailingSets(Mgr, loops[ws].current_game_code) :
          LET pass == broadcast_message(Mgr, loops[ws].current_game_code,
                                        loops[ws].msg.notice, None, failing)
          IN  CreateNow(ws, pass.m, pass.sent, drawn, deck_cards)

\* receive_text returns a join_game message; the loop awaits the deck
JoinGameReceive(ws, game_code) ==
    /\ Receive(ws)
    /\ RouterStep(ws, "receive", "join_game", TRUE, NoError, Mgr,
                  [Took(ws) EXCEPT !.pc = "join_game",
                                    !.msg = [game_code |-> Upper(game_code)]],
                  {})

\* the deck is loaded: leave the current room, then join_room; an error is
\* reported and the loop continues, a success is registered and broadcast
JoinGameLoaded(ws, deck_cards) ==
    /\ loops[ws].pc = "join_game"
    /\ LET user_id == SocketUser(ws)
           game_code == loops[ws].msg.game_code
           m1 == IF loops[ws].current_game_code # None
                 THEN leave_room(Mgr, user_id) ELSE Mgr
       IN  \E r \in join_room(m1, game_code, user_id, deck_cards) :
              IF ~r.ok
              THEN RouterStep(ws, "join_game", "", FALSE, r.error, r.m,
                              [loops[ws] EXCEPT !.pc = "receive",
                                                !.msg = EmptyDict],
                              {[to |-> ws,
                                msg |-> [type |-> "error", message |-> r.error]]})
              ELSE LET m2 == register_connection(r.m, game_code, user_id, ws) IN
                   RouterStep(ws, "join_game", "", TRUE, NoError, m2,
                              [loops[ws] EXCEPT
                                 !.pc = "join_game_joined",
                                 !.current_game_code = game_code,
                                 !.msg = [notice |->
                                            Notice(m2, "player_joined",
                                                   game_code, user_id)]],
                              {})

\* the player_joined broadcast and the broadcast of the state
JoinGameBroadcast(ws) ==
    /\ loops[ws].pc = "join_game_joined"
    /\ LET game_code == loops[ws].current_game_code IN
       \E failing \in FailingSets(Mgr, game_code) :
          LET pass1 == broadcast_message(Mgr, game_code, loops[ws].msg.notice,
                                         None, failing)
              pass2 == broadcast_state(pass1.m, game_code, failing)
          IN  RouterStep(ws, "broadcast", "join_game", TRUE, NoError, pass2.m,
                         [loops[ws] EXCEPT !.pc = "receive", !.msg = EmptyDict],
                         pass1.sent \cup pass2.sent)

\* receive_text returns a leave_game message
LeaveGameReceive(ws) ==
    /\ Receive(ws)
    /\ LET current_game_code == loops[ws].current_game_code
           user_id == SocketUser(ws)
       IN  IF current_game_code # None
           THEN LET m1 == leave_room(Mgr, user_id) IN
                RouterStep(ws, "leave_room", "leave_game", TRUE, NoError, m1,
                           [Took(ws) EXCEPT
                              !.pc = "leave_game_left",
                              !.msg = [notice |->
                                         Notice(m1, "player_left",
                                                current_game_code, user_id)]],
                           {})
           ELSE RouterStep(ws, "leave_game", "", TRUE, NoError, Mgr, Took(ws),
                           {[to |-> ws, msg |-> [type |-> "left_game"]]})

\* the player_left broadcast is over: current_game_code = None, left_game
LeaveGameBroadcast(ws) ==
    /\ loops[ws].pc = "leave_game_left"
    /\ \E failing \in FailingSets(Mgr, loops[ws].current_game_code) :
          LET pass == broadcast_message(Mgr, loops[ws].current_game_code,
                                        loops[ws].msg.notice, None, failing)
          IN  RouterStep(ws, "leave_game", "", TRUE, NoError, pass.m,
                         [loops[ws] EXCEPT !.pc = "receive",
                                           !.current_game_code = None,
                                           !.msg = EmptyDict],
                         pass.sent \cup {[to |-> ws, msg |-> [type |-> "left_game"]]})

\* the finally block: unregister_connection, leave_room, and the player_left
\* broadcast when the room still has players
Cleanup(ws, op, action_type, m) ==
    LET user_id == SocketUser(ws)
        current_game_code == loops[ws].current_game_code
        m1 == unregister_connection(m, user_id)
    IN  IF current_game_code = None
        THEN RouterStep(ws, op, action_type, TRUE, NoError, m1,
                        [loops[ws] EXCEPT !.pc = "closed", !.msg = EmptyDict], {})
        ELSE LET m2 == leave_room(m1, user_id) IN
             IF current_game_code \in DOMAIN m2.rooms
             THEN RouterStep(ws, op, action_type, TRUE, NoError, m2,
                             [loops[ws] EXCEPT
                                !.pc = "closing",
                                !.msg = [notice |->
                                           Notice(m2, "player_left",
                                                  current_game_code, user_id)]],
                             {})
             ELSE RouterStep(ws, op, action_type, TRUE, NoError, m2,
                             [loops[ws] EXCEPT !.pc = "closed",
                                               !.msg = EmptyDict], {})

\* receive_text raises WebSocketDisconnect
Disconnect(ws) ==
    /\ loops[ws].pc = "receive"
    /\ Cleanup(ws, "disconnect", "", Mgr)

\* the last player_left broadcast of a loop that is ending
DisconnectBroadcast(ws) ==
    /\ loops[ws].pc = "closing"
    /\ \E failing \in FailingSets(Mgr, loops[ws].current_game_code) :
          LET pass == broadcast_message(Mgr, loops[ws].current_game_code,
                                        loops[ws].msg.notice, None, failing)
          IN  RouterStep(ws, "closed", "", TRUE, NoError, pass.m,
                         [loops[ws] EXCEPT !.pc = "closed", !.msg = EmptyDict],
                         pass.sent)

\* game_action answering a rejected action to the whole room
GameActionReceive_RejectToRoom(ws, action) ==
    /\ Receive(ws)
    /\ loops[ws].current_game_code # None
    /\ \E r \in handle_action(Mgr, loops[ws].current_game_code,
                              SocketUser(ws), action) :
          /\ ~r.raised
          /\ IF ~r.ok
             THEN RouterStep(ws, "game_action", Get(action, "action", ""), FALSE,
                             r.error, r.m, Took(ws),
                             broadcast_message(r.m, loops[ws].current_game_code,
                                               [type |-> "action_rejected",
                                                reason |-> r.error,
                                                action |-> action],
                                               None, {}).sent
                               \cup {[to |-> ws,
                                      msg |-> [type |-> "action_rejected",
                                               reason |-> r.error,
                                               action |-> action]]})
             ELSE RouterStep(ws, "game_action", Get(action, "action", ""), TRUE,
                             NoError, r.m,
                             [Took(ws) EXCEPT !.pc = "game_action_ok"], {})

\* receive_text returns a game_action message: handle_action, then the
\* rejection to the sender or the start of the broadcast of the state; an
\* exception out of handle_action ends the loop
GameActionReceive(ws, action) ==
    /\ Receive(ws)
    /\ LET current_game_code == loops[ws].current_game_code
           action_type == Get(action, "action", "")
       IN  IF current_game_code = None
           THEN RouterStep(ws, "game_action", action_type, FALSE,
                           <<"Not in a game">>, Mgr, Took(ws),
                           {[to |-> ws, msg |-> [type |-> "error",
                                                 message |-> <<"Not in a game">>]]})
           ELSE \E r \in handle_action(Mgr, current_game_code,
                                       SocketUser(ws), action) :
                   IF r.raised
                   THEN Cleanup(ws, "disconnect", action_type, r.m)
                   ELSE IF ~r.ok
                   THEN RouterStep(ws, "game_action", action_type, FALSE,
                                   r.error, r.m, Took(ws),
                                   {[to |-> ws,
                                     msg |-> [type |-> "action_rejected",
                                              reason |-> r.error,
                                              action |-> action]]})
                   ELSE RouterStep(ws, "game_action", action_type, TRUE,
                                   NoError, r.m,
                                   [Took(ws) EXCEPT !.pc = "game_action_ok"],
                                   {})

\* the broadcast of the state after a successful action
GameActionBroadcast(ws) ==
    /\ loops[ws].pc = "game_action_ok"
    /\ \E failing \in FailingSets(Mgr, loops[ws].current_game_code) :
          LET pass == broadcast_state(Mgr, loops[ws].current_game_code, failing)
          IN  RouterStep(ws, "broadcast", "game_action", TRUE, NoError, pass.m,
                         [loops[ws] EXCEPT !.pc = "receive"], pass.sent)

(***************************************************************************)
(* SpecRouter: three connections of two users send create_game, join_game, *)
(* leave_game and game_action messages and disconnect.                     *)
(***************************************************************************)
\* each player's deck is a commander
RouterDeck == <<[isCommander |-> TRUE, quantity |-> 1]>>

\* the max_players values create_game messages carry
RouterMaxPlayers == {0, 2}

\* the game_code values join_game messages carry
RouterJoinCodes == {"aaaaaa", "BBBBBB"}

RouterActions == {[action |-> "keep_hand"], [action |-> "concede"]}

NextRouter ==
    \/ \E ws \in Sockets, mp \in RouterMaxPlayers : CreateGameReceive(ws, mp)
    \/ \E ws \in Sockets : CreateGameLoaded(ws, Codes, RouterDeck)
    \/ \E ws \in Sockets : CreateGameCreate(ws, Codes, RouterDeck)
    \/ \E ws \in Sockets, c \in RouterJoinCodes : JoinGameReceive(ws, c)
    \/ \E ws \in Sockets : JoinGameLoaded(ws, RouterDeck)
    \/ \E ws \in Sockets : JoinGameBroadcast(ws)
    \/ \E ws \in Sockets : LeaveGameReceive(ws)
    \/ \E ws \in Sockets : LeaveGameBroadcast(ws)
    \/ \E ws \in Sockets, a \in RouterActions : GameActionReceive(ws, a)
    \/ \E ws \in Sockets : GameActionBroadcast(ws)
    \/ \E ws \in Sockets : Disconnect(ws)
    \/ \E ws \in Sockets : DisconnectBroadcast(ws)

SpecRouter == Init /\ [][NextRouter]_vars

(***************************************************************************)
(* C14  No room with an empty player map is in the registry: leave_room    *)
(* takes the player out of the room's player map and connection set, and   *)
(* when that empties the player map the room and its connection set are    *)
(* deleted in the same operation - for any sequence of create, join,       *)
(* leave and disconnect.                                                   *)
(***************************************************************************)
\* leave_room applied to the manager m for user_id does what the claim says
LeavesCleanly(m, user_id) ==
    LET after == leave_room(m, user_id) IN
    IF user_id \in DOMAIN m.player_room /\ m.player_room[user_id] \in DOMAIN m.rooms
    THEN LET game_code == m.player_room[user_id]
             remaining == (DOMAIN m.rooms[game_code].players) \ {user_id}
         IN  IF remaining = {}
             THEN /\ game_code \notin DOMAIN after.rooms
                  /\ game_code \notin DOMAIN after.connections
             ELSE /\ DOMAIN after.rooms[game_code].players = remaining
                  /\ user_id \notin DOMAIN after.connections[game_code]
    ELSE after.rooms = m.rooms /\ after.connections = m.connections

C14_NoEmptyRoom ==
    /\ \A c \in DOMAIN rooms : DOMAIN rooms[c].players # {}
    /\ DOMAIN connections = DOMAIN rooms
    /\ \A u \in Users : LeavesCleanly(Mgr, u)

\* the only player of a room has sent leave_game: the room and its
\* connection set are gone while another room is live
C14_Witness ==
    /\ last.op = "leave_room" /\ last.type = "leave_game"
    /\ \E ws \in Sockets :
          /\ loops[ws].pc = "leave_game_left"
          /\ loops[ws].current_game_code \notin DOMAIN rooms
          /\ loops[ws].current_game_code \notin DOMAIN connections
    /\ DOMAIN rooms # {}

(***************************************************************************)
(* C15  join_room fails, with a reason of its own for each, when the room  *)
(* is not found, is already started, is at capacity or already seats the   *)
(* player; it succeeds exactly when none of the four holds, and then the   *)
(* new player is in the room's player map with a fresh player state and    *)
(* the player-to-room index points to the room.                            *)
(***************************************************************************)
\* the reasons of the conditions that hold for the join
JoinRefusals(m, game_code, user_id) ==
    IF game_code \notin DOMAIN m.rooms
    THEN {<<"Game not found">>}
    ELSE LET room == m.rooms[game_code] IN
         (IF room.started THEN {<<"Game already started">>} ELSE {})
         \cup (IF Cardinality(DOMAIN room.players) >= room.max_players
               THEN {<<"Game is full">>} ELSE {})
         \cup (IF user_id \in DOMAIN room.players
               THEN {<<"Already in this game">>} ELSE {})

\* a player state as seeded from the deck: nothing drawn, played or changed
FreshPlayer(player, user_id, deck_cards) ==
    /\ player.id = user_id
    /\ player.life = StartingLife /\ player.poison = 0
    /\ player.mana_pool = ManaPool
    /\ player.hand = <<>> /\ player.battlefield = <<>>
    /\ player.graveyard = <<>> /\ player.exile = <<>>
    /\ Len(player.library) + Len(player.command) = SumQuantity(deck_cards)
    /\ \A i \in 1..Len(player.library) :
          player.library[i].zone = "library" /\ ~player.library[i].is_tapped
    /\ \A i \in 1..Len(player.command) : player.command[i].is_commander
    /\ player.mulligan_count = 0
    /\ ~player.has_drawn_opening /\ ~player.is_ready

C15_JoinRoom ==
    \A c \in Codes : \A u \in Users :
        LET refusals == JoinRefusals(Mgr, c, u) IN
        \A r \in join_room(Mgr, c, u, LobbyDeck(u)) :
            IF refusals # {}
            THEN ~r.ok /\ r.error \in refusals /\ r.m = Mgr
            ELSE /\ r.ok /\ r.error = NoError
                 /\ DOMAIN r.m.rooms[c].players = (DOMAIN rooms[c].players) \cup {u}
                 /\ FreshPlayer(r.m.rooms[c].players[u], u, LobbyDeck(u))
                 /\ \A v \in DOMAIN rooms[c].players :
                       r.m.rooms[c].players[v] = rooms[c].players[v]
                 /\ r.m.player_room[u] = c
                 /\ r.m.connections = connections

\* a join has just been refused because the game has started
C15_Witness ==
    /\ last.op = "join_room" /\ ~last.ok
    /\ last.error = <<"Game already started">>
    /\ \E c \in StartedRooms : Cardinality(Seated(c)) = 2

(***************************************************************************)
(* C16  A join_game message that is rejected (room not found, already      *)
(* started, full, or already seated) leaves all registry and room state    *)
(* as it was before the message, including the sender's seat in the room   *)
(* they were in and that room's existence.                                 *)
(***************************************************************************)
C16_RejectedJoinChangesNothing ==
    [][(last'.op = "join_game" /\ ~last'.ok) =>
          /\ rooms' = rooms
          /\ connections' = connections
          /\ player_room' = player_room]_vars

(***************************************************************************)
(* C17  Room codes are unique under concurrency: however the create_game   *)
(* requests of concurrent connection loops interleave, create_room issues  *)
(* no code a live room uses and replaces no registry entry, so every live  *)
(* room has a code of its own and no live room is lost by a creation.      *)
(***************************************************************************)
\* every live room is registered under its own code
OwnCode == \A c \in DOMAIN rooms : rooms[c].game_code = c

\* a step that creates a room adds one registry entry and keeps the others
CreationStep ==
    last'.op = "create_game" =>
        /\ \A c \in DOMAIN rooms : c \in DOMAIN rooms' /\ rooms'[c] = rooms[c]
        /\ Cardinality(DOMAIN rooms') = Cardinality(DOMAIN rooms) + 1

C17_UniqueCodes == [](OwnCode) /\ [][CreationStep]_vars

\* a room has just been created while another room is live and another
\* connection's create_game is waiting for its deck
C17_Witness ==
    /\ last.op = "create_game"
    /\ Cardinality(DOMAIN rooms) = 2
    /\ \E ws \in Sockets : loops[ws].pc = "create_game"

(***************************************************************************)
(* C18  Room capacity: in every reachable state the number of players      *)
(* seated in a room is at most the room's max_players, for any max_players *)
(* value create_game accepts and any interleaving of concurrent join_game  *)
(* requests on the room.                                                   *)
(***************************************************************************)
C18_Capacity ==
    \A c \in DOMAIN rooms :
        Cardinality(DOMAIN rooms[c].players) <= rooms[c].max_players

(***************************************************************************)
(* C19  Every successful action handled by handle_action - pre-game        *)
(* (mulligan, keep_hand, draw_opening_hand) as well as in-game - appends   *)
(* exactly one history entry recording the acting player and the action    *)
(* type, and a failed action appends none.                                 *)
(***************************************************************************)
C19_HistoryEverySuccess ==
    \A c \in DOMAIN rooms : \A u \in Seated(c) :
        \A a \in ProbeActions(u) :
            \A r \in handle_action(Mgr, c, u, a) :
                ~r.raised =>
                    LET before == rooms[c].history
                        after == r.m.rooms[c].history
                    IN  IF r.ok
                        THEN /\ Len(after) = Len(before) + 1
                             /\ SubSeq(after, 1, Len(before)) = before
                             /\ after[Len(after)].player_id = u
                             /\ after[Len(after)].action_type = Get(a, "action", "")
                        ELSE after = before

(***************************************************************************)
(* C20  In a broadcast pass a send failure to one connection does not      *)
(* abort delivery to the others: every other registered connection gets    *)
(* its own viewer-specific projection; the failing connections are taken   *)
(* out of the room's connection set when the pass is over, and the failure *)
(* changes neither the player map nor any game state and causes no         *)
(* message to other players.                                               *)
(***************************************************************************)
\* the connections of the room without those whose websocket fails
Survivors(game_code, failing) ==
    {u \in DOMAIN connections[game_code] :
        connections[game_code][u] \notin failing}

\* the connection sets after a pass over the room with these failures
Pruned(game_code, failing) ==
    [c \in DOMAIN connections |->
        IF c = game_code
        THEN [u \in Survivors(game_code, failing) |-> connections[c][u]]
        ELSE connections[c]]

C20_BroadcastIsolation ==
    \A c \in DOMAIN rooms : \A failing \in SUBSET Sockets :
        LET state_pass == broadcast_state(Mgr, c, failing)
            notice == Notice(Mgr, "player_left", c, "p1")
            message_pass == broadcast_message(Mgr, c, notice, None, failing)
        IN  /\ state_pass.sent =
                  {[to |-> connections[c][u],
                    msg |-> [type |-> "game_state_update",
                             game_state |-> GameRoom_to_dict(rooms[c], u)]]
                     : u \in Survivors(c, failing)}
            /\ state_pass.m = Manager(rooms, Pruned(c, failing), player_room)
            /\ message_pass.sent =
                  {[to |-> connections[c][u], msg |-> notice]
                     : u \in Survivors(c, failing)}
            /\ message_pass.m = Manager(rooms, Pruned(c, failing), player_room)

\* the broadcast after p2's join could not reach p1's websocket: p2 got the
\* state, p1 is still seated and no longer has a connection in the room
C20_Witness ==
    /\ last.op = "broadcast" /\ last.type = "join_game"
    /\ \E c \in DOMAIN rooms :
          /\ Seated(c) = {"p1", "p2"}
          /\ DOMAIN connections[c] = {"p2"}
          /\ \E s \in sent :
                /\ s.to = connections[c]["p2"]
                /\ s.msg.type = "game_state_update"
                /\ s.msg.game_state = GameRoom_to_dict(rooms[c], "p2")

(***************************************************************************)
(* controllers/game.py: broadcast_state, send by send.  The coroutine      *)
(* suspends in each `await ws.send_json`; bcast holds where it is: the     *)
(* items of conns in the order the dict gives them, the position of the    *)
(* item whose send is awaited, that item's websocket and the state built   *)
(* for it before the send, and the users noted as disconnected.  A send    *)
(* returns, raises, or (the peer does not read) never completes.           *)
(***************************************************************************)
\* the coroutine at the start of the loop: the first item's send is awaited,
\* in any order the dict may hold its items in
BeginPass(m, game_code, passes) ==
    LET conns == Get(m.connections, game_code, EmptyDict) IN
    IF game_code \notin DOMAIN m.rooms \/ DOMAIN conns = {}
    THEN {[pc |-> "done", game_code |-> game_code, order |-> <<>>, pos |-> 0,
           ws |-> None, state |-> None, disconnected |-> {}, passes |-> passes]}
    ELSE {[pc |-> "send", game_code |-> game_code, order |-> o, pos |-> 1,
           ws |-> conns[o[1]],
           state |-> GameRoom_to_dict(m.rooms[game_code], o[1]),
           disconnected |-> {}, passes |-> passes] : o \in Orders(DOMAIN conns)}

\* the loop resumed after a send with `disconnected` as it is now: the dict
\* iterator raises when the dict has changed size, else gives the next item,
\* and after the last one the disconnected users are popped
ResumePass(disconnected) ==
    LET conns == Get(connections, bcast.game_code, EmptyDict) IN
    IF Cardinality(DOMAIN conns) # Len(bcast.order)
    THEN /\ bcast' = [bcast EXCEPT !.pc = "raised", !.ws = None, !.state = None,
                                    !.disconnected = disconnected]
         /\ UNCHANGED connections
    ELSE IF bcast.pos < Len(bcast.order)
    THEN /\ bcast' = [bcast EXCEPT
                        !.pos = @ + 1,
                        !.ws = conns[bcast.order[bcast.pos + 1]],
                        !.state = GameRoom_to_dict(rooms[bcast.game_code],
                                                   bcast.order[bcast.pos + 1]),
                        !.disconnected = disconnected]
         /\ UNCHANGED connections
    ELSE /\ bcast' = [bcast EXCEPT !.pc = "done", !.ws = None, !.state = None,
                                    !.disconnected = disconnected]
         /\ connections' = PopAll(Mgr, bcast.game_code, disconnected).connections

\* the user whose send the pass awaits
PassUser == bcast.order[bcast.pos]

\* the game_action branch of a connection loop of user_id seated in game_code:
\* a rejected action is answered to the sender, a successful one starts the
\* broadcast
SendAction(game_code, user_id, action) ==
    /\ bcast.pc \in {"idle", "done"}
    /\ bcast.passes < MaxPasses
    /\ \E r \in handle_action(Mgr, game_code, user_id, action) :
          /\ ~r.raised
          /\ rooms' = r.m.rooms
          /\ connections' = r.m.connections
          /\ player_room' = r.m.player_room
          /\ last' = Returned("game_action", Get(action, "action", ""), r)
          /\ IF r.ok
             THEN /\ bcast' \in BeginPass(r.m, game_code, bcast.passes + 1)
                  /\ sent' = {}
             ELSE /\ bcast' = [bcast EXCEPT !.pc = "idle", !.passes = @ + 1]
                  /\ sent' = {[to |-> Get(Get(connections, game_code, EmptyDict),
                                          user_id, None),
                               msg |-> [type |-> "action_rejected",
                                        reason |-> r.error, action |-> action]]}
    /\ UNCHANGED <<pay, loops>>

\* the awaited send_json returns: the message is out
SendReturns ==
    /\ bcast.pc = "send"
    /\ sent' = sent \cup
          {[to |-> bcast.ws,
            msg |-> [type |-> "game_state_update", game_state |-> bcast.state]]}
    /\ ResumePass(bcast.disconnected)
    /\ UNCHANGED <<rooms, player_room, last, pay, loops>>

\* the awaited send_json raises: the user is noted
SendRaises ==
    /\ bcast.pc = "send"
    /\ ResumePass(bcast.disconnected \cup {PassUser})
    /\ UNCHANGED <<rooms, player_room, last, pay, loops, sent>>

\* the awaited send_json is one that never completes
SendHangs ==
    /\ bcast.pc = "send"
    /\ bcast' = [bcast EXCEPT !.pc = "hung"]
    /\ UNCHANGED <<rooms, connections, player_room, last, pay, loops, sent>>

\* a send that is not hanging completes, one way or the other
SendCompletes == SendReturns \/ SendRaises

(***************************************************************************)
(* SpecSend: three players seated in a lobby room, each with a registered  *)
(* connection, send game actions; the sends of each broadcast are followed *)
(* one by one.                                                             *)
(***************************************************************************)
SendCode == "AAAAAA"

\* the websocket each user's connection loop registered
SendSocket(user_id) ==
    CASE user_id = "p1" -> "w1" [] user_id = "p2" -> "w2" [] OTHER -> "w3"

\* the manager after p1 created the room, p2 and p3 joined and each loop
\* registered its websocket
SendManager ==
    LET m0 == Manager(EmptyDict, EmptyDict, EmptyDict)
        m1 == (CHOOSE r \in create_room(m0, {SendCode}, "p1", RouterDeck, 4) : TRUE).m
        m2 == register_connection(m1, SendCode, "p1", SendSocket("p1"))
        m3 == (CHOOSE r \in join_room(m2, SendCode, "p2", RouterDeck) : TRUE).m
        m4 == register_connection(m3, SendCode, "p2", SendSocket("p2"))
        m5 == (CHOOSE r \in join_room(m4, SendCode, "p3", RouterDeck) : TRUE).m
    IN  register_connection(m5, SendCode, "p3", SendSocket("p3"))

InitSend ==
    /\ rooms = SendManager.rooms
    /\ connections = SendManager.connections
    /\ player_room = SendManager.player_room
    /\ last = [op |-> "join_room", type |-> "", ok |-> TRUE, error |-> NoError,
               raised |-> FALSE]
    /\ pay = NoPay
    /\ loops = [ws \in Sockets |-> NewLoop]
    /\ sent = {}
    /\ bcast = NoPass

SendActions == {[action |-> "keep_hand"], [action |-> "draw_opening_hand"]}

NextSend ==
    \/ \E u \in Users, a \in SendActions : SendAction(SendCode, u, a)
    \/ SendReturns
    \/ SendRaises
    \/ SendHangs

\* the event loop resumes a coroutine whose awaited send has completed
SpecSend == InitSend /\ [][NextSend]_vars /\ WF_vars(SendCompletes)

(***************************************************************************)
(* C21  The sends of one broadcast are fire-and-forget relative to each    *)
(* other: a send that is slow or never completes does not keep delivery to *)
(* the other connections of the room from starting, so every other         *)
(* registered connection is eventually sent the state.                     *)
(***************************************************************************)
\* the pass has not yet started the send to user_id
Waiting(user_id) ==
    /\ bcast.pc \in {"send", "hung"}
    /\ \E i \in (bcast.pos + 1)..Len(bcast.order) : bcast.order[i] = user_id

\* the pass has started the send to user_id
Attempted(user_id) ==
    /\ bcast.pc \in {"send", "hung", "done"}
    /\ \E i \in 1..bcast.pos : bcast.order[i] = user_id

C21_FireAndForget == \A u \in Users : Waiting(u) ~> Attempted(u)

(***************************************************************************)
(* C22  For every game_action message of a connection that is in a game:   *)
(* if the action succeeds, a game_state_update is sent to every connection *)
(* registered for the sender's room; if it fails, exactly one              *)
(* action_rejected message carrying the reason goes to the sender's        *)
(* connection and no message of any kind goes to any other connection.     *)
(***************************************************************************)
\* the step is ws's loop taking a game_action message while it has a game,
\* and handle_action returns failure
RejectedStep(ws) ==
    /\ loops[ws].pc = "receive"
    /\ loops[ws].current_game_code # None
    /\ loops'[ws].received = loops[ws].received + 1
    /\ last'.op = "game_action"
    /\ ~last'.ok

\* the step is the broadcast that follows ws's successful action
AcceptedStep(ws) ==
    /\ loops[ws].pc = "game_action_ok"
    /\ loops'[ws].pc = "receive"

\* the users whose connection is registered for ws's room and takes the send
Reached(ws) ==
    LET c == loops[ws].current_game_code IN
    DOMAIN Get(connections, c, EmptyDict) \cap DOMAIN Get(connections', c, EmptyDict)

GameActionMessages ==
    \A ws \in Sockets :
        /\ RejectedStep(ws) =>
              \E a \in RouterActions :
                 sent' = {[to |-> ws,
                           msg |-> [type |-> "action_rejected",
                                    reason |-> last'.error, action |-> a]]}
        /\ AcceptedStep(ws) =>
              LET c == loops[ws].current_game_code IN
              /\ \A u \in Reached(ws) :
                    [to |-> connections[c][u],
                     msg |-> [type |-> "game_state_update",
                              game_state |-> GameRoom_to_dict(rooms[c], u)]]
                       \in sent'
              /\ \A s \in sent' : s.msg.type = "game_state_update"

BadZoneActions(user_id) ==
    {[action |-> "move_card", instance_id |-> i, to_zone |-> z] :
        i \in ProbeIds(user_id), z \in {"stack", ""}}

C23_HandleActionReturns ==
    \A c \in Codes, u \in Users :
        \A a \in ProbeActions(u) \cup BadZoneActions(u) :
            \A r \in handle_action(Mgr, c, u, a) : ~r.raised

(***************************************************************************)
(* C24  Closing a connection triggers unregistration and, if the player    *)
(* was seated, a leave_room: once the receive loop of a connection through *)
(* which a player created or joined a room has ended, that player is not   *)
(* in the player map of that room, that connection is in no room's         *)
(* connection set, and a room left without players is not in the registry. *)
(***************************************************************************)
\* the step ends the receive loop of ws while it holds a game code: the
\* finally block has unregistered and left
EndsInGame(ws) ==
    /\ loops[ws].pc = "receive"
    /\ loops'[ws].pc \in {"closing", "closed"}
    /\ loops[ws].current_game_code # None

DisconnectCleanup ==
    \A ws \in Sockets :
        EndsInGame(ws) =>
            LET c == loops[ws].current_game_code IN
            /\ c \in DOMAIN rooms' =>
                  /\ SocketUser(ws) \notin DOMAIN rooms'[c].players
                  /\ DOMAIN rooms'[c].players # {}
            /\ \A d \in DOMAIN connections' :
                  \A u \in DOMAIN connections'[d] : connections'[d][u] # ws

C24_DisconnectCleanup == [][DisconnectCleanup]_vars

(***************************************************************************)
(* C25  When pay_mana_cost succeeds without an explicit allocation, the    *)
(* resulting pool equals the reference result: each colored requirement    *)
(* subtracted from its own color, then the generic requirement taken from  *)
(* the first non-empty color in the order colorless, white, blue, black,   *)
(* red, green - a later color is touched only when all earlier colors are  *)
(* at zero.                                                                *)
(***************************************************************************)
\* the order of the claim
ReferenceOrder == <<"C", "W", "U", "B", "R", "G">>

\* what is left of the k-th color of the order: the colors before it absorb
\* the generic requirement first, it gives what they could not
ReferenceLeft(pool, cost, k) ==
    LET avail(j) == pool[ReferenceOrder[j]] - cost[ReferenceOrder[j]]
        before == IF k = 1 THEN 0
                  ELSE IF k = 2 THEN avail(1)
                  ELSE IF k = 3 THEN avail(1) + avail(2)
                  ELSE IF k = 4 THEN avail(1) + avail(2) + avail(3)
                  ELSE IF k = 5 THEN avail(1) + avail(2) + avail(3) + avail(4)
                  ELSE avail(1) + avail(2) + avail(3) + avail(4) + avail(5)
    IN  avail(k) - Min(avail(k), Max(0, cost.generic - before))

ReferencePool(pool, cost) ==
    [c \in ManaColorSet |->
        ReferenceLeft(pool, cost, CHOOSE k \in 1..6 : ReferenceOrder[k] = c)]

C25_AutoPayOrder ==
    (pay.phase = "done" /\ pay.ok /\ pay.generic_allocation = NoAllocation) =>
        /\ pay.new_pool = ReferencePool(pay.input, pay.cost)
        /\ \A k \in 2..6 :
              pay.new_pool[ReferenceOrder[k]]
                 < pay.input[ReferenceOrder[k]] - pay.cost[ReferenceOrder[k]]
              => \A j \in 1..(k - 1) : pay.new_pool[ReferenceOrder[j]] = 0

\* a generic cost of two paid from one colorless and one white, green kept
C25_Witness ==
    /\ pay.phase = "done"
    /\ pay.ok
    /\ pay.generic_allocation = NoAllocation
    /\ pay.cost.generic = 2
    /\ pay.input["C"] = 1 /\ pay.input["W"] = 1 /\ pay.input["G"] = 1
    /\ pay.new_pool["C"] = 0 /\ pay.new_pool["W"] = 0 /\ pay.new_pool["G"] = 1

(***************************************************************************)
(* SpecParse: parse_mana_cost as a function.  Init draws None or a string  *)
(* of at most MaxCostLen characters; the one action applies the function.  *)
(***************************************************************************)
CostChars == {"{", "}", "W", "2", "X", "/", "²"}

CostInputs ==
    {[is_none |-> TRUE, chars |-> <<>>]}
    \cup {[is_none |-> FALSE, chars |-> str] :
            str \in UNION {[1..n -> CostChars] : n \in 0..MaxCostLen}}

InitParse ==
    /\ rooms = EmptyDict
    /\ connections = EmptyDict
    /\ player_room = EmptyDict
    /\ last = Returned("none", "", MOk(Mgr))
    /\ loops = [ws \in Sockets |-> NewLoop]
    /\ sent = {}
    /\ bcast = NoPass
    /\ \E mana_cost \in CostInputs :
          pay = [phase |-> "cost", mana_cost |-> mana_cost]

ParseManaCost ==
    /\ pay.phase = "cost"
    /\ pay' = [phase |-> "parsed", mana_cost |-> pay.mana_cost,
               result |-> parse_mana_cost(pay.mana_cost)]
    /\ UNCHANGED <<rooms, connections, player_room, last, loops, sent, bcast>>

NextParse == ParseManaCost

SpecParse == InitParse /\ [][NextParse]_vars

(***************************************************************************)
(* C26  parse_mana_cost, for any sequence of bracketed symbols: each       *)
(* numeric token adds its value to generic and to total, each of           *)
(* W/U/B/R/G/C adds 1 to that color and to total, each X token adds        *)
(* nothing, each hybrid token (containing "/") adds 1 to total and to no   *)
(* color, and any other token adds nothing; hence total = generic + the    *)
(* six color counts + the number of hybrid tokens, and empty or absent     *)
(* input yields the all-zero cost.                                         *)
(***************************************************************************)
\* the bracketed symbols of the parsed input
Symbols == findall(pay.mana_cost.chars, 1)

\* the tokens written in decimal digits
NumericTokens ==
    {k \in 1..Len(Symbols) :
        \A j \in 1..Len(Symbols[k]) : Symbols[k][j] \in DecimalChars}

HybridTokens ==
    {k \in 1..Len(Symbols) : \E j \in 1..Len(Symbols[k]) : Symbols[k][j] = "/"}

RECURSIVE SumValues(_)
SumValues(S) ==
    IF S = {} THEN 0
    ELSE LET k == CHOOSE x \in S : TRUE IN int(Symbols[k]) + SumValues(S \ {k})

C26_ParseManaCost ==
    pay.phase = "parsed" =>
        LET result == pay.result IN
        /\ ~result.raised
        /\ result.generic = SumValues(NumericTokens)
        /\ \A c \in ManaColorSet :
              result[c] = Cardinality({k \in 1..Len(Symbols) : Symbols[k] = <<c>>})
        /\ result.total = result.generic + result.W + result.U + result.B
                          + result.R + result.G + result.C
                          + Cardinality(HybridTokens)
        /\ (pay.mana_cost.is_none \/ pay.mana_cost.chars = <<>>) =>
              result = ZeroCost

(***************************************************************************)
(* C27  tap_for_mana on an untapped card on the acting player's            *)
(* battlefield taps that card and increases exactly one of the six         *)
(* mana-pool counters (the requested color) by 1, so the pool total grows  *)
(* by exactly 1; on a card that is already tapped or is not on the         *)
(* battlefield it fails and changes neither the card nor the pool.         *)
(***************************************************************************)
\* the colors a tap_for_mana action may name: the six, and one that is none
TapColors == ManaColorSet \cup {"X"}

\* the six counters of a pool
SixCounters(pool) == [c \in ManaColorSet |-> pool[c]]

C27_TapForMana ==
    \A c \in StartedRooms : \A u \in Seated(c) :
        \A i \in {_generate_id(u, 1), "p3-6"}, color \in TapColors :
            LET player == rooms[c].players[u]
                at == IndexOf(player.battlefield, i)
                action == [action |-> "tap_for_mana", instance_id |-> i,
                           color |-> color]
            IN  \A r \in handle_action(Mgr, c, u, action) :
                    LET after == r.m.rooms[c].players[u] IN
                    IF at # 0 /\ ~player.battlefield[at].is_tapped
                    THEN /\ r.ok
                         /\ after.battlefield[at].is_tapped
                         /\ \E paid \in ManaColorSet :
                               /\ paid = color
                               /\ SixCounters(after.mana_pool) =
                                    [SixCounters(player.mana_pool)
                                       EXCEPT ![paid] = @ + 1]
                         /\ ManaPool_total(after.mana_pool)
                               = ManaPool_total(player.mana_pool) + 1
                    ELSE /\ ~r.ok
                         /\ after = player

(***************************************************************************)
(* C28  In every reachable state every card that is in a hand or a library *)
(* is untapped: a card entering hand or library through draw, opening-hand *)
(* draw, mulligan or move_card has its tapped flag cleared, whatever it    *)
(* was in the zone it left.                                                *)
(***************************************************************************)
HiddenUntapped(m) ==
    \A c \in DOMAIN m.rooms : \A u \in DOMAIN m.rooms[c].players :
        LET player == m.rooms[c].players[u] IN
        /\ \A k \in 1..Len(player.hand) : ~player.hand[k].is_tapped
        /\ \A k \in 1..Len(player.library) : ~player.library[k].is_tapped

\* the actions that bring cards to a hand or a library
EnteringProbes(user_id) ==
    {[action |-> t] : t \in {"draw_card", "draw_opening_hand", "mulligan"}}
    \cup {[action |-> "move_card", instance_id |-> i, to_zone |-> z] :
            i \in {_generate_id(user_id, 1), _generate_id(user_id, 3)},
            z \in {"hand", "library"}}

\* the state, every such action on it, and the player's first card moved
\* to a zone where it keeps its flag and from there to hand or library
C28_HandLibraryUntapped ==
    /\ HiddenUntapped(Mgr)
    /\ \A c \in DOMAIN rooms : \A u \in Seated(c) :
          /\ \A a \in EnteringProbes(u) :
                \A r \in handle_action(Mgr, c, u, a) : HiddenUntapped(r.m)
          /\ \A i \in {_generate_id(u, 1)},
                z \in {"graveyard", "exile", "command"},
                back \in {"hand", "library"} :
                \A r1 \in handle_action(Mgr, c, u,
                              [action |-> "move_card", instance_id |-> i,
                               to_zone |-> z]) :
                   \A r2 \in handle_action(r1.m, c, u,
                                 [action |-> "move_card", instance_id |-> i,
                                  to_zone |-> back]) :
                      HiddenUntapped(r2.m)

\* p1's first card is tapped on the battlefield, the other is in the hand
C28_Witness ==
    \E c \in StartedRooms :
        LET player == rooms[c].players["p1"]
            at == IndexOf(player.battlefield, "p1-1")
        IN  /\ at > 0
            /\ player.battlefield[at].is_tapped
            /\ IndexOf(player.hand, "p1-2") > 0

(***************************************************************************)
(* C29  Players act only on their own state: every action submitted by a   *)
(* player other than next_turn leaves the zones, tapped flags, counters,   *)
(* life, mana pool, mulligan count and flags of every other player         *)
(* unchanged, and every action other than set_phase, next_turn and a       *)
(* game-starting keep_hand leaves the room's phase, turn number, active    *)
(* player and turn order unchanged.                                        *)
(***************************************************************************)
\* the room-level turn state
TurnState(room) ==
    <<room.phase, room.turn_number, room.active_player_id, room.turn_order>>

C29_OwnStateOnly ==
    \A c \in DOMAIN rooms : \A u \in Seated(c) :
        \A a \in ProbeActions(u) :
            \A r \in handle_action(Mgr, c, u, a) :
                LET type == Get(a, "action", "")
                    before == rooms[c]
                    after == r.m.rooms[c]
                    starts == type = "keep_hand" /\ ~before.started /\ after.started
                IN  /\ DOMAIN after.players = DOMAIN before.players
                    /\ type # "next_turn" =>
                          \A v \in Seated(c) \ {u} :
                              after.players[v] = before.players[v]
                    /\ (type \notin {"set_phase", "next_turn"} /\ ~starts) =>
                          TurnState(after) = TurnState(before)

\* a started game in which p1 has just tapped the commander for mana
C29_Witness ==
    /\ last.op = "handle_action" /\ last.type = "tap_for_mana" /\ last.ok
    /\ \E c \in StartedRooms :
          /\ Seated(c) = {"p1", "p2"}
          /\ rooms[c].players["p1"].battlefield # <<>>
          /\ rooms[c].players["p2"].command # <<>>

(***************************************************************************)
(* C30  Through handle_action a player's opening hand is drawn at most     *)
(* once outside of mulligans: draw_opening_hand is rejected whenever the   *)
(* player's has-drawn flag is already set (by an earlier draw_opening_hand *)
(* or by a mulligan), so in every state of a room that is not started each *)
(* player's hand size is at most max(0, 7 - mulligan_count).               *)
(***************************************************************************)
C30_OpeningHandOnce ==
    \A c \in LobbyRooms : \A u \in Seated(c) :
        LET player == rooms[c].players[u] IN
        /\ Len(player.hand) <= Max(0, OpeningHandSize - player.mulligan_count)
        /\ player.mulligan_count > 0 => player.has_drawn_opening
        /\ player.has_drawn_opening =>
              \A r \in handle_action(Mgr, c, u, [action |-> "draw_opening_hand"]) :
                  /\ ~r.ok
                  /\ r.error = <<"Opening hand already drawn">>
                  /\ r.m = Mgr

\* after the sixth mulligan the one card of the hand is all the bound allows,
\* the library holds another, and draw_opening_hand has just been refused
C30_Witness ==
    /\ last.op = "handle_action" /\ last.type = "draw_opening_hand" /\ ~last.ok
    /\ \E c \in LobbyRooms : \E u \in Seated(c) :
          /\ rooms[c].players[u].mulligan_count = MaxMulligans
          /\ Len(rooms[c].players[u].hand) = 1
          /\ Len(rooms[c].players[u].library) >= 1

\* the drawn pool with one color driven below zero (add_mana with a negative
\* amount leaves such pools)
NegativePools(pool) ==
    {[pool EXCEPT ![c] = -1] : c \in PayColors}

(***************************************************************************)
(* C31  pay_mana_cost succeeds exactly when can_pay_mana_cost returns true *)
(* for the same pool and cost, for every explicit generic allocation: once *)
(* the initial payability check has passed, the failure branch "Not enough *)
(* mana for generic cost" is never taken.                                  *)
(***************************************************************************)
C31_PayIffCanPay ==
    pay.phase = "done" =>
        /\ pay.ok <=> can_pay_mana_cost(pay.input, pay.cost)
        /\ pay.error # <<"Not enough mana for generic cost">>
        /\ \A pool \in NegativePools(pay.input) :
              LET r == pay_mana_cost(pool, pay.cost, pay.generic_allocation) IN
              /\ r.ok <=> can_pay_mana_cost(pool, pay.cost)
              /\ r.error # <<"Not enough mana for generic cost">>

\* a payment that passed the check with one unit of generic mana allocated to
\* W, none left in W after the colored requirement, and the whole generic
\* requirement of 2 left to the auto-pay loops, which take the pool's last mana
C31_Witness ==
    /\ pay.phase = "done"
    /\ pay.ok
    /\ pay.generic_allocation = [W |-> 1]
    /\ pay.cost.generic = 2
    /\ pay.input["W"] = pay.cost["W"]
    /\ ManaPool_total(pay.input) = ColoredTotal(pay.cost) + 2
    /\ ManaPool_total(pay.new_pool) = 0

(***************************************************************************)
(* C32  The player-to-room index is consistent with the rooms in every     *)
(* reachable state: player_room maps user u to code c if and only if u is  *)
(* in the player map of the live room with code c, so every user is seated *)
(* in at most one room - after any sequence and interleaving of            *)
(* create_game, join_game, leave_game and disconnects, also when several   *)
(* connections present the same identity.                                  *)
(***************************************************************************)
Indexed(user_id, game_code) ==
    user_id \in DOMAIN player_room /\ player_room[user_id] = game_code

C32_IndexConsistent ==
    \A u \in Users, c \in Codes :
        Indexed(u, c) <=> (c \in DOMAIN rooms /\ u \in DOMAIN rooms[c].players)

(***************************************************************************)
(* C33  Room lifecycle is monotonic: once a room's started flag is true it *)
(* never becomes false again for as long as the room is in the registry, a *)
(* player's ready flag once set is never cleared, and the player set of a  *)
(* started room never gains a member (it can only shrink through leaves).  *)
(***************************************************************************)
\* one operation of the manager, for the rooms it keeps in the registry and
\* the players it keeps seated
LifecycleStep ==
    \A c \in DOMAIN rooms \cap DOMAIN rooms' :
        /\ rooms[c].started => rooms'[c].started
        /\ \A u \in DOMAIN rooms[c].players \cap DOMAIN rooms'[c].players :
              rooms[c].players[u].is_ready => rooms'[c].players[u].is_ready
        /\ rooms[c].started =>
              DOMAIN rooms'[c].players \subseteq DOMAIN rooms[c].players

PreGameRejected ==
    \A c \in StartedRooms : \A u \in Seated(c) : \A t \in PreGameTypes :
        handle_action(Mgr, c, u, [action |-> t])
            = {MFail(Mgr, <<"Unknown action: ", t>>)}

PreGameFields(player) ==
    <<player.mulligan_count, player.has_drawn_opening, player.is_ready>>

FrozenStep ==
    \A c \in DOMAIN rooms \cap DOMAIN rooms' :
        rooms[c].started =>
            \A u \in DOMAIN rooms[c].players \cap DOMAIN rooms'[c].players :
                PreGameFields(rooms'[c].players[u])
                    = PreGameFields(rooms[c].players[u])

C34_PreGameFrozen == [](PreGameRejected) /\ [][FrozenStep]_vars

\* in a started game a player who took a mulligan in the lobby has just had
\* another mulligan rejected as an unknown action
C34_Witness ==
    /\ last.op = "handle_action"
    /\ last.type = "mulligan"
    /\ last.error = <<"Unknown action: ", "mulligan">>
    /\ \E c \in StartedRooms : \E u \in Seated(c) :
          /\ rooms[c].players[u].mulligan_count = 1
          /\ rooms[c].players[u].has_drawn_opening
          /\ Len(rooms[c].history) > 0

(***************************************************************************)
(* SpecInterleave: while the broadcast started by p1's game action is      *)
(* suspended in a send, the connection loops of p2 and p3 run: a loop that *)
(* closes unregisters and leaves, a loop that takes a join_game message    *)
(* joins and registers.  Each is the stretch of its handler up to its      *)
(* first await.  A pass is followed up to the first change of the dict it  *)
(* iterates: the iterator's behaviour after a second change depends on the *)
(* dict's entry table and is left out.                                     *)
(***************************************************************************)
\* no pass is suspended over a dict that has already changed under it
MayInterleave ==
    bcast.pc = "send" =>
        Cardinality(DOMAIN Get(connections, bcast.game_code, EmptyDict))
            = Len(bcast.order)

\* routers/game.py, the finally block of the loop of user_id, seated
LoopLeaves(user_id) ==
    /\ MayInterleave
    /\ user_id \in DOMAIN player_room
    /\ Apply("disconnect", "",
             MOk(leave_room(unregister_connection(Mgr, user_id), user_id)))

\* routers/game.py, the join_game branch of the loop of user_id, in no room,
\* once the deck is loaded
LoopJoins(user_id) ==
    /\ MayInterleave
    /\ user_id \notin DOMAIN player_room
    /\ \E r \in join_room(Mgr, SendCode, user_id, RouterDeck) :
          Apply("join_game", "",
                IF r.ok
                THEN MOk(register_connection(r.m, SendCode, user_id,
                                             SendSocket(user_id)))
                ELSE r)

\* the users whose loops run beside p1's
OtherUsers == {"p2", "p3"}

NextInterleave ==
    \/ \E a \in SendActions : SendAction(SendCode, "p1", a)
    \/ SendReturns
    \/ SendRaises
    \/ \E u \in OtherUsers : LoopLeaves(u)
    \/ \E u \in OtherUsers : LoopJoins(u)

SpecInterleave == InitSend /\ [][NextInterleave]_vars

(***************************************************************************)
(* C35  A broadcast pass that is interleaved, at its send suspension       *)
(* points, with other connection loops registering, unregistering, joining *)
(* or leaving the same room completes without error and delivers the state *)
(* to every connection that stays registered for the room throughout the   *)
(* pass.                                                                   *)
(***************************************************************************)
\* user_id was registered when the pass began and still is, with the same
\* websocket, and no send to it failed
StaysRegistered(user_id) ==
    /\ user_id \in Range(bcast.order)
    /\ user_id \notin bcast.disconnected
    /\ user_id \in DOMAIN Get(connections, bcast.game_code, EmptyDict)

Delivered(user_id) ==
    \E s \in sent :
        /\ s.to = connections[bcast.game_code][user_id]
        /\ s.msg.type = "game_state_update"

C35_InterleavedPass ==
    /\ bcast.pc # "raised"
    /\ bcast.pc = "done" =>
          \A u \in Users : StaysRegistered(u) => Delivered(u)

(***************************************************************************)
(* controllers/game.py: _generate_game_code, iteration by iteration.  The  *)
(* two codes of Codes stand for the 36^6 strings random.choices can give.  *)
(* create_room has no await: while a loop is in the retry loop no other    *)
(* coroutine runs.                                                         *)
(***************************************************************************)
\* `if code not in self.rooms` with the code always taken as in use
CodeIsFree_Never(m, code) == FALSE

\* `if code not in self.rooms`
CodeIsFree(m, code) == code \notin DOMAIN m.rooms

\* the connection loop of ws is inside the while loop of _generate_game_code
Generating(ws) == loops[ws].pc = "generate"

\* no loop holds the event loop
Idle == \A ws \in Sockets : ~Generating(ws)

\* the codes the retry loop of ws has drawn since it was entered
Drawn(ws) == Get(loops[ws].msg, "drawn", {})

\* one iteration for the loop of ws, whose deck is loaded or which is already
\* retrying: random.choices gives `code`; a free code is returned to
\* create_room, which seats the host, and the router registers the connection
\* and replies; a code in use sends the loop round again
DrawCode(ws, code) ==
    /\ loops[ws].pc \in {"create_game", "generate"}
    /\ \A w \in Sockets \ {ws} : ~Generating(w)
    /\ LET user_id == SocketUser(ws)
           drawn == Drawn(ws) \cup {code}
       IN  IF CodeIsFree(Mgr, code)
           THEN \E r \in create_room(Mgr, {code}, user_id, RouterDeck,
                                      loops[ws].msg.max_players) :
                   LET m1 == register_connection(r.m, code, user_id, ws) IN
                   RouterStep(ws, "create_game", "", TRUE, NoError, m1,
                              [loops[ws] EXCEPT !.pc = "receive",
                                                !.current_game_code = code,
                                                !.msg = [drawn |-> drawn]],
                              {[to |-> ws,
                                msg |-> [type |-> "game_created",
                                         game_code |-> code,
                                         game_state |->
                                             GameRoom_to_dict(m1.rooms[code],
                                                              user_id)]]})
           ELSE RouterStep(ws, "generate", code, FALSE, NoError, Mgr,
                           [loops[ws] EXCEPT !.pc = "generate",
                                             !.msg = DictSet(@, "drawn", drawn)],
                           {})

\* the iteration draws a code no live room uses
DrawFree ==
    \E ws \in Sockets, code \in Codes \ DOMAIN rooms : DrawCode(ws, code)

(***************************************************************************)
(* SpecCode: three connections of two users, none in a game, send          *)
(* create_game; a connection in a game sends leave_game.  Random choice is *)
(* fair: an iteration that can draw a free code eventually does.           *)
(***************************************************************************)
NextCode ==
    \/ \E ws \in Sockets, mp \in {2, 4} :
          /\ Idle
          /\ loops[ws].current_game_code = None
          /\ CreateGameReceive(ws, mp)
    \/ \E ws \in Sockets, code \in Codes : DrawCode(ws, code)
    \/ \E ws \in Sockets :
          /\ Idle
          /\ loops[ws].current_game_code # None
          /\ LeaveGameReceive(ws)
    \/ \E ws \in Sockets : Idle /\ LeaveGameBroadcast(ws)

SpecCode == Init /\ [][NextCode]_vars /\ WF_vars(DrawFree)

(***************************************************************************)
(* C36  Room code generation terminates: as long as at least one code is   *)
(* not used by a live room, the retry loop of _generate_game_code          *)
(* eventually returns a free code (under fair random choice), and so       *)
(* create_room eventually completes.                                       *)
(***************************************************************************)
\* create_room has completed for the loop of ws: it holds the code of a live
\* room that seats its user
Created(ws) ==
    /\ loops[ws].pc = "receive"
    /\ loops[ws].current_game_code \in DOMAIN rooms
    /\ SocketUser(ws) \in DOMAIN rooms[loops[ws].current_game_code].players

C36_CodeGenerationTerminates ==
    \A ws \in Sockets :
        (Generating(ws) /\ Codes \ DOMAIN rooms # {}) ~> Created(ws)

\* a loop drew the code of a live room, went round again and has created its
\* room under the other code
C36_Witness ==
    \E ws \in Sockets :
        /\ Created(ws)
        /\ last.op = "create_game"
        /\ Drawn(ws) = Codes
        /\ DOMAIN rooms = Codes

(***************************************************************************)
(* C37  A lobby room never rests in a state where it could start but has   *)
(* not: in every reachable state, a room in which every seated player is   *)
(* ready and the seated count is at least min_players is started - also    *)
(* when that condition comes about because a not-ready player leaves the   *)
(* lobby rather than through a keep_hand.                                  *)
(***************************************************************************)
CouldStart(room) ==
    /\ AllReady(room)
    /\ Cardinality(DOMAIN room.players) >= room.min_players

C37_LobbyNeverStartable ==
    \A c \in DOMAIN rooms : CouldStart(rooms[c]) => rooms[c].started

====
